---- MODULE Spec2Model ----
(***************************************************************************)
(* Video -> 1-bit raster animation -> embedded source code.                *)
(*                                                                         *)
(* The browser pipeline (grayscaleAndThreshold, packRowMajor, processVideo)*)
(* and the backend VideoProcessor (convertImageToMonochrome, packFrame)    *)
(* as state machines.  The specifications share the variables:            *)
(*   SpecPack   the two bit packers applied to a MonoFrame                 *)
(*   SpecQuant  the two quantizers, each run twice on one input            *)
(*   Spec       one processVideo call, from createObjectURL to settlement  *)
(*   SpecLive   the same call under the event loop's fairness              *)
(*   SpecGen    the two code generators, called twice on the same frames   *)
(*   SpecPage   the Index page: its timers and its processVideo calls      *)
(* Every specification leaves the variables of the others at their idle    *)
(* values.                                                                 *)
(***************************************************************************)
EXTENDS Integers, Sequences, FiniteSets, TLC

VARIABLES
    pk,             \* packer scenario: the MonoFrame and what each packer returned
    qz,             \* quantizer scenario: the pixel input and what each run returned
    pc,             \* processVideo: position of the call
    opts,           \* processVideo: ProcessOptions
    video,          \* processVideo: the video element: duration in ticks (-1: NaN),
                    \*   whether loadedmetadata ever fires, and what it shows
    duration,       \* processVideo: const duration (ticks), line 444
    totalDesired,   \* processVideo: let totalDesired
    fps,            \* processVideo: const fps, a rational <<num, den>>
    timestamps,     \* processVideo: const timestamps, rationals in seconds
    i,              \* processVideo: loop index of the extraction loop
    framesMono,     \* processVideo: const framesMono
    framesPacked,   \* processVideo: const framesPacked
    result,         \* processVideo: the settled value (ProcessResult or error)
    videoUrl,       \* processVideo: object URL: "null", "held" or "revoked"
    skipped,        \* processVideo: timestamps whose frame was skipped (catch, line 522)
    warnings,       \* processVideo: the timestamps console.warn reported (line 523)
    revocations,    \* processVideo: calls of URL.revokeObjectURL (line 548)
    ctx,            \* processVideo: the 2d context: whether getContext returned one, the
                    \*   depth of its save() stack, the quarter turns in its transform
    log,            \* processVideo: the calls and events of the extraction loop, in order
    gen,            \* generator scenario: the arguments and what each generator returned
    page,           \* page scenario: the state of the Index page and its pending work
    sketch,         \* sketch scenario: a generated program running on the board
    server          \* backend scenario: one upload and the requests to process it

vars == <<pk, qz, pc, opts, video, duration, totalDesired, fps, timestamps, i,
          framesMono, framesPacked, result, videoUrl, skipped, warnings, revocations,
          ctx, log, gen, page, sketch, server>>

pvVars == <<pc, opts, video, duration, totalDesired, fps, timestamps, i,
            framesMono, framesPacked, result, videoUrl, skipped, warnings, revocations,
            ctx, log>>

(***************************************************************************)
(* Arithmetic helpers                                                      *)
(***************************************************************************)
RECURSIVE Pow2(_)
Pow2(n) == IF n = 0 THEN 1 ELSE 2 * Pow2(n - 1)

Min(a, b) == IF a <= b THEN a ELSE b
Max(a, b) == IF a >= b THEN a ELSE b

\* Math.ceil(a / b) for a >= 0, b > 0
CeilDiv(a, b) == (a + b - 1) \div b

\* a | b on non-negative integers, bit by bit
RECURSIVE BitOr(_, _)
BitOr(a, b) ==
    IF a = 0 THEN b
    ELSE IF b = 0 THEN a
    ELSE (IF a % 2 = 1 \/ b % 2 = 1 THEN 1 ELSE 0) + 2 * BitOr(a \div 2, b \div 2)

\* a store into a Uint8Array keeps the low 8 bits
ToUint8(v) == v % 256

(***************************************************************************)
(* Bit packer, browser: packRowMajor                                       *)
(***************************************************************************)
\* const bytesPerRow = Math.ceil(width / 8)
BytesPerRowFloor(width) == width \div 8
BytesPerRow(width) == CeilDiv(width, 8)

\* const byteIndex = y * bytesPerRow + (x >> 3)
ByteIndex(x, y, bytesPerRow) == y * bytesPerRow + (x \div 8)

\* const bitPos = x & 7   (LSB is leftmost)
BitPosMsbFirst(x) == 7 - (x % 8)
BitPos(x) == x % 8

\* new Uint8Array(n): n zero bytes
ZeroBytes(n) == [k \in 1..n |-> 0]

\* The body of the two nested loops, pixel k = y*width + x, in loop order.
\* xLimit is the bound of the inner loop (width in the source).
RECURSIVE PackLoop(_, _, _, _, _, _, _)
PackLoop(bits, width, height, xLimit, x, y, out) ==
    IF y >= height THEN out
    ELSE IF x >= xLimit THEN PackLoop(bits, width, height, xLimit, 0, y + 1, out)
    ELSE LET idx       == y * width + x
             bit       == IF idx + 1 \in DOMAIN bits THEN bits[idx + 1] ELSE 0
             byteIndex == ByteIndex(x, y, BytesPerRow(width))
             bitPos    == BitPos(x)
             out2      == IF bit # 0 /\ byteIndex + 1 \in DOMAIN out
                          THEN [out EXCEPT ![byteIndex + 1] =
                                   ToUint8(BitOr(@, Pow2(bitPos)))]
                          ELSE out
         IN  PackLoop(bits, width, height, xLimit, x + 1, y, out2)

\* a packer whose inner loop runs over whole bytes, reading past the row's end
packRowMajorOverrun(bits, width, height) ==
    PackLoop(bits, width, height, 8 * BytesPerRow(width), 0, 0,
             ZeroBytes(BytesPerRow(width) * height))

packRowMajor(bits, width, height) ==
    PackLoop(bits, width, height, width, 0, 0,
             ZeroBytes(BytesPerRow(width) * height))

(***************************************************************************)
(* Bit packer, backend: VideoProcessor.packFrame                           *)
(***************************************************************************)
RECURSIVE PackFrameLoop(_, _, _, _, _, _)
PackFrameLoop(frame, width, height, x, y, packedFrame) ==
    IF y >= height THEN packedFrame
    ELSE IF x >= width THEN PackFrameLoop(frame, width, height, 0, y + 1, packedFrame)
    ELSE LET bytesPerRow == CeilDiv(width, 8)
             bit         == frame[y * width + x + 1]
             byteIndex   == y * bytesPerRow + (x \div 8)   \* Math.floor(x / 8)
             bitPosition == x % 8
             next        == IF bit # 0
                            THEN [packedFrame EXCEPT ![byteIndex + 1] =
                                     ToUint8(BitOr(@, Pow2(bitPosition)))]
                            ELSE packedFrame
         IN  PackFrameLoop(frame, width, height, x + 1, y, next)

packFrame(frame, width, height) ==
    PackFrameLoop(frame, width, height, 0, 0,
                  ZeroBytes(CeilDiv(width, 8) * height))

\* What a reader of the packed format does: bit (x mod 8) of byte
\* y*ceil(w/8) + floor(x/8).
UnpackBit(packed, width, x, y) ==
    (packed[y * CeilDiv(width, 8) + (x \div 8) + 1] \div Pow2(x % 8)) % 2

(***************************************************************************)
(* SpecPack: a MonoFrame from a bounded family, handed to both packers     *)
(***************************************************************************)
MaxPackWidth  == 9
MaxPackHeight == 2
MaxFlips      == 2

\* MonoFrames: a background value with at most MaxFlips pixels of the other value
RECURSIVE SetsUpTo(_, _)
SetsUpTo(n, m) ==
    IF m = 0 THEN {{}}
    ELSE LET smaller == SetsUpTo(n, m - 1)
         IN  smaller \cup {S \cup {x} : S \in smaller, x \in 1..n}
FlipSets(n) == SetsUpTo(n, MaxFlips)
MonoOf(n, S, bg) == [k \in 1..n |-> IF k \in S THEN 1 - bg ELSE bg]

\* An operation's return value is kept as <<>> (not yet returned) or <<value>>.
PkIdle == [width |-> 0, height |-> 0, bits |-> <<>>, browser |-> <<>>, backend |-> <<>>]
QzIdle == [data |-> <<>>, threshold |-> 0, run1 |-> <<>>, run2 |-> <<>>,
           image |-> 0, width |-> 0, height |-> 0, conv1 |-> <<>>, conv2 |-> <<>>]

NoOpts == [width |-> 0, height |-> 0, orientation |-> "horizontal", targetFps |-> 0,
           maxFrames |-> 0, targetFrames |-> 0, threshold |-> 0]
NoVideo == [duration |-> 0, metadata |-> FALSE, film |-> "gray"]
Pending == [kind |-> "pending"]
\* canvas.getContext('2d'): a fresh context, or null
Context(available) == [available |-> available, saved |-> 0, turns |-> 0]
GenIdle == [pc |-> "off"]
PageIdle == [pc |-> "off"]
SketchIdle == [pc |-> "off"]
ServerIdle == [pc |-> "off"]

PvIdle ==
    /\ pc = "off"
    /\ opts = NoOpts
    /\ video = NoVideo
    /\ duration = 0
    /\ totalDesired = 0
    /\ fps = <<0, 1>>
    /\ timestamps = <<>>
    /\ i = 0
    /\ framesMono = <<>>
    /\ framesPacked = <<>>
    /\ result = Pending
    /\ videoUrl = "null"
    /\ skipped = 0
    /\ warnings = <<>>
    /\ revocations = 0
    /\ ctx = Context(FALSE)
    /\ log = <<>>

InitPack ==
    /\ \E w \in 1..MaxPackWidth, h \in 1..MaxPackHeight, bg \in {0, 1} :
         \E S \in FlipSets(w * h) :
            pk = [width |-> w, height |-> h, bits |-> MonoOf(w * h, S, bg),
                  browser |-> <<>>, backend |-> <<>>]
    /\ qz = QzIdle
    /\ PvIdle
    /\ gen = GenIdle
    /\ page = PageIdle
    /\ sketch = SketchIdle
    /\ server = ServerIdle

PackBrowser ==
    /\ pk.width > 0
    /\ pk.browser = <<>>
    /\ pk' = [pk EXCEPT !.browser = <<packRowMajor(pk.bits, pk.width, pk.height)>>]
    /\ UNCHANGED <<sketch, server, qz, pvVars, gen, page>>

PackBackend ==
    /\ pk.width > 0
    /\ pk.backend = <<>>
    /\ pk' = [pk EXCEPT !.backend = <<packFrame(pk.bits, pk.width, pk.height)>>]
    /\ UNCHANGED <<sketch, server, qz, pvVars, gen, page>>

NextPack == PackBrowser \/ PackBackend

SpecPack == InitPack /\ [][NextPack]_vars

\* C1: packing round-trip.  For every MonoFrame handed to packRowMajor and to
\* packFrame, reading bit (x mod 8) of byte y*ceil(w/8) + floor(x/8) of the packed
\* frame gives back M[y*w + x], for all 0 <= x < w, 0 <= y < h.
C1_PackRoundTrip ==
    \A p \in {pk.browser, pk.backend} :
        p # <<>> =>
            \A x \in 0..(pk.width - 1), y \in 0..(pk.height - 1) :
                UnpackBit(p[1], pk.width, x, y) = pk.bits[y * pk.width + x + 1]

\* Both packers have returned for a frame of two rows of two bytes holding both values.
C1_Witness ==
    /\ pk.width > 8 /\ pk.height > 1
    /\ pk.browser # <<>> /\ pk.backend # <<>>
    /\ \E k \in DOMAIN pk.bits : pk.bits[k] = 1 /\ k % pk.width = 0
    /\ \E k \in DOMAIN pk.bits : pk.bits[k] = 0

\* C3: padding bits are zero.  When width is not a multiple of 8, bits
\* (width mod 8)..7 of the last byte of every row of a packed frame are 0.
C3_PaddingZero ==
    \A p \in {pk.browser, pk.backend} :
        (p # <<>> /\ pk.width % 8 # 0) =>
            \A y \in 0..(pk.height - 1), b \in (pk.width % 8)..7 :
                LET last == p[1][y * CeilDiv(pk.width, 8) + CeilDiv(pk.width, 8)]
                IN  (last \div Pow2(b)) % 2 = 0

\* A packed frame of rows that end inside a byte, the pixels before and after each
\* row's padding being 1.
C3_Witness ==
    /\ pk.width % 8 # 0 /\ pk.height > 1
    /\ pk.browser # <<>> /\ pk.backend # <<>>
    /\ pk.bits[pk.width] = 1 /\ pk.bits[pk.width + 1] = 1

(***************************************************************************)
(* IEEE-754 binary64 arithmetic, as far as the luminance needs it.         *)
(* A non-negative double below 2^10 is a multiple of 2^-56 here; it is     *)
(* kept as the integer value / 2^-56, in three limbs of 22 bits            *)
(* <<low, mid, high>> (TLC's integers have 32 bits).  Every operation is   *)
(* the exact result rounded to 53 significant bits, ties to even.          *)
(***************************************************************************)
LimbBase == Pow2(22)

Carry(a0, a1, a2) ==
    LET s1 == a1 + (a0 \div LimbBase)
    IN  <<a0 % LimbBase, s1 % LimbBase, a2 + (s1 \div LimbBase)>>

RECURSIVE BitLen(_)
BitLen(k) == IF k = 0 THEN 0 ELSE 1 + BitLen(k \div 2)

BitLength(n) ==
    IF n[3] > 0 THEN 44 + BitLen(n[3])
    ELSE IF n[2] > 0 THEN 22 + BitLen(n[2])
    ELSE BitLen(n[1])

\* round to nearest, ties to even, at 53 significant bits
RoundToDouble(n) ==
    LET len == BitLength(n)
    IN  IF len <= 53 THEN n
        ELSE LET unit == Pow2(len - 53)
                 q    == n[1] \div unit
                 r    == n[1] % unit
                 up   == (2 * r > unit) \/ (2 * r = unit /\ q % 2 = 1)
             IN  Carry((q + (IF up THEN 1 ELSE 0)) * unit, n[2], n[3])

\* double * integer 0..255
FMul(c, v) == RoundToDouble(Carry(c[1] * v, c[2] * v, c[3] * v))
\* double + double
FAdd(a, b) == RoundToDouble(Carry(a[1] + b[1], a[2] + b[2], a[3] + b[3]))
\* the double of an integer 0..255
FromInt(v) == <<0, 0, v * Pow2(12)>>
\* a >= b
FGeq(a, b) ==
    \/ a[3] > b[3]
    \/ a[3] = b[3] /\ a[2] > b[2]
    \/ a[3] = b[3] /\ a[2] = b[2] /\ a[1] >= b[1]

\* The doubles nearest to 0.299, 0.587 and 0.114.
K299 == <<67108, 2952790, 1224>>
K587 == <<33552, 1476395, 2404>>
K114 == <<4093641, 3959422, 466>>

(***************************************************************************)
(* Monochrome quantizer, browser: grayscaleAndThreshold                    *)
(***************************************************************************)
\* const y = 0.299 * r + 0.587 * g + 0.114 * b;
Luminance(r, g, b) == FAdd(FAdd(FMul(K299, r), FMul(K587, g)), FMul(K114, b))

\* y >= threshold ? 1 : 0
ThresholdBitExclusive(y, threshold) ==
    IF FGeq(y, FromInt(threshold)) /\ y # FromInt(threshold) THEN 1 ELSE 0
ThresholdBit(y, threshold) == IF FGeq(y, FromInt(threshold)) THEN 1 ELSE 0

grayscaleAndThreshold(data, threshold) ==
    [j \in 1..(Len(data) \div 4) |->
        ThresholdBit(Luminance(data[4 * (j - 1) + 1], data[4 * (j - 1) + 2],
                               data[4 * (j - 1) + 3]), threshold)]

(***************************************************************************)
(* Monochrome quantizer, backend: VideoProcessor.convertImageToMonochrome  *)
(***************************************************************************)
\* frame[i] = Math.random() > 0.5 ? 1 : 0 for every i: the 'end' handler may
\* resolve with any frame of width*height values, whatever the image holds.
convertImageToMonochrome(imagePath, width, height, threshold) ==
    [1..(width * height) -> {0, 1}]

(***************************************************************************)
(* SpecQuant: one pixel input, each quantizer run twice on it              *)
(***************************************************************************)
MaxGrayDelta   == 1
MaxQuantPixels == 2
MaxConvWidth   == 2
MaxConvHeight  == 2
NumImages      == 2

Levels == {0, 255} \cup ((128 - MaxGrayDelta)..(128 + MaxGrayDelta))
Colours == {<<v, v, v>> : v \in Levels} \cup {<<255, 0, 0>>, <<0, 255, 0>>, <<0, 0, 255>>}

\* ImageData.data of n pixels: odd pixels c1, even pixels c2, alpha a throughout
RgbaOf(n, c1, c2, a) ==
    [k \in 1..(4 * n) |->
        LET c == IF ((k - 1) \div 4) % 2 = 0 THEN c1 ELSE c2
        IN  IF (k - 1) % 4 = 3 THEN a ELSE c[((k - 1) % 4) + 1]]

InitQuantBrowser ==
    \E n \in 1..MaxQuantPixels, c1 \in Colours, c2 \in Colours, a \in {0, 255},
       t \in Levels :
        qz = [QzIdle EXCEPT !.data = RgbaOf(n, c1, c2, a), !.threshold = t]

InitQuantBackend ==
    \E img \in 1..NumImages, w \in 1..MaxConvWidth, h \in 1..MaxConvHeight,
       t \in Levels :
        qz = [QzIdle EXCEPT !.image = img, !.width = w, !.height = h, !.threshold = t]

InitQuant ==
    /\ InitQuantBrowser \/ InitQuantBackend
    /\ pk = PkIdle
    /\ sketch = SketchIdle
    /\ server = ServerIdle
    /\ PvIdle
    /\ gen = GenIdle
    /\ page = PageIdle

Quantize1 ==
    /\ qz.data # <<>>
    /\ qz.run1 = <<>>
    /\ qz' = [qz EXCEPT !.run1 = <<grayscaleAndThreshold(qz.data, qz.threshold)>>]
    /\ UNCHANGED <<sketch, server, pk, pvVars, gen, page>>

Quantize2 ==
    /\ qz.data # <<>>
    /\ qz.run2 = <<>>
    /\ qz' = [qz EXCEPT !.run2 = <<grayscaleAndThreshold(qz.data, qz.threshold)>>]
    /\ UNCHANGED <<sketch, server, pk, pvVars, gen, page>>

Convert1 ==
    /\ qz.image # 0
    /\ qz.conv1 = <<>>
    /\ \E frame \in convertImageToMonochrome(qz.image, qz.width, qz.height, qz.threshold) :
         qz' = [qz EXCEPT !.conv1 = <<frame>>]
    /\ UNCHANGED <<sketch, server, pk, pvVars, gen, page>>

Convert2 ==
    /\ qz.image # 0
    /\ qz.conv2 = <<>>
    /\ \E frame \in convertImageToMonochrome(qz.image, qz.width, qz.height, qz.threshold) :
         qz' = [qz EXCEPT !.conv2 = <<frame>>]
    /\ UNCHANGED <<sketch, server, pk, pvVars, gen, page>>

NextQuant == Quantize1 \/ Quantize2 \/ Convert1 \/ Convert2

SpecQuant == InitQuant /\ [][NextQuant]_vars

(***************************************************************************)
(* processVideo: the frame sampler                                         *)
(* Times are exact rationals: a duration is a number of ticks of 1/DurDen  *)
(* second, fps and timestamps are pairs <<numerator, denominator>>.  The   *)
(* rounding of the doubles in duration * targetFps, totalDesired/duration, *)
(* 1 / fps and t += step is not modelled: t is k * step exactly.  The two  *)
(* tests of the loop, t < duration and timestamps.length < totalDesired,   *)
(* are the code's.                                                         *)
(***************************************************************************)
DurDen == 2

RLess(a, b) == a[1] * b[2] < b[1] * a[2]
REq(a, b)   == a[1] * b[2] = b[1] * a[2]
RMin(a, b)  == IF RLess(b, a) THEN b ELSE a

\* const duration = Math.min(video.duration, 30);
DurationUncapped(videoDuration) == videoDuration
CapDuration(videoDuration) == Min(videoDuration, 30 * DurDen)

\* const targetFps = Math.max(1, Math.min(30, opts.targetFps));
ClampFps(targetFps) == Max(1, Min(30, targetFps))

\* if (opts.targetFrames && opts.targetFrames > 0) ... else ...
TotalDesiredUncapped(o, dur, targetFps) ==
    IF o.targetFrames # 0 /\ o.targetFrames > 0
    THEN o.targetFrames
    ELSE Min(o.maxFrames, (dur * targetFps) \div DurDen)
TotalDesired(o, dur, targetFps) ==
    IF o.targetFrames # 0 /\ o.targetFrames > 0
    THEN Min(o.maxFrames, o.targetFrames)
    ELSE Min(o.maxFrames, (dur * targetFps) \div DurDen)

\* const fps = totalDesired > 0 ? Math.min(targetFps, totalDesired / duration) : targetFps;
EffectiveFpsTarget(total, dur, targetFps) == <<targetFps, 1>>
EffectiveFps(total, dur, targetFps) ==
    IF total > 0 THEN RMin(<<targetFps, 1>>, <<total * DurDen, dur>>)
    ELSE <<targetFps, 1>>

\* for (let t = 0; t < duration && timestamps.length < totalDesired; t += step)
\*   timestamps.push(t);            with step = 1 / fps, t = k * step
RECURSIVE StepLoop(_, _, _, _, _)
StepLoop(k, step, dur, total, acc) ==
    LET t == <<k * step[1], step[2]>>
    IN  IF RLess(t, <<dur, DurDen>>) /\ Len(acc) < total
        THEN StepLoop(k + 1, step, dur, total, Append(acc, t))
        ELSE acc

\* the loop without its test t < duration
RECURSIVE StepLoopPastEnd(_, _, _, _, _)
StepLoopPastEnd(k, step, dur, total, acc) ==
    IF Len(acc) < total
    THEN StepLoopPastEnd(k + 1, step, dur, total, Append(acc, <<k * step[1], step[2]>>))
    ELSE acc
TimestampsPastEnd(dur, f, total) ==
    LET ts == StepLoopPastEnd(0, <<f[2], f[1]>>, dur, total, <<>>)
    IN  IF Len(ts) = 0 THEN <<(<<0, 1>>)>> ELSE ts

\* the loop, then: if (timestamps.length === 0) timestamps.push(0);
TimestampsNoFallback(dur, f, total) == StepLoop(0, <<f[2], f[1]>>, dur, total, <<>>)
Timestamps(dur, f, total) ==
    LET ts == StepLoop(0, <<f[2], f[1]>>, dur, total, <<>>)
    IN  IF Len(ts) = 0 THEN <<(<<0, 1>>)>> ELSE ts

(***************************************************************************)
(* processVideo: rasterizer, extraction loop and settlement                *)
(***************************************************************************)
\* const width  = opts.orientation === 'horizontal' ? opts.width  : opts.height;
\* const height = opts.orientation === 'horizontal' ? opts.height : opts.width;
CanvasWidth(o)  == IF o.orientation = "horizontal" THEN o.width  ELSE o.height
CanvasHeight(o) == IF o.orientation = "horizontal" THEN o.height ELSE o.width

\* const threshold = opts.threshold ?? 128;   (-1 stands for undefined)
Threshold(o) == IF o.threshold = -1 THEN 128 ELSE o.threshold

\* ctx.getImageData(0, 0, canvas.width, canvas.height).data after the frame the
\* decoder exposes at timestamps[k] has been drawn: n RGBA pixels.
GrayAt(film, k, p) ==
    CASE film = "gray"  -> 128
      [] film = "flash" -> IF k % 2 = 0 THEN 255 ELSE 0
      [] OTHER          -> IF (p + k) % 3 = 0 THEN 255 ELSE 0
ImageData(film, k, n) ==
    [b \in 1..(4 * n) |->
        IF (b - 1) % 4 = 3 THEN 255 ELSE GrayAt(film, k, (b - 1) \div 4)]

\* a rejection with the error as it was thrown
RejectedUnwrapped(cause) == [kind |-> "rejected", message |-> <<cause>>]

\* throw new Error(`Failed to process video: ${error.message}`), line 543
Rejected(cause) == [kind |-> "rejected", message |-> <<"Failed to process video: ", cause>>]

\* a rejection that leaves the object URL alive
RejectNoRevoke(cause) ==
    /\ pc' = "settled"
    /\ result' = Rejected(cause)
    /\ UNCHANGED <<videoUrl, revocations>>

\* catch (error) { throw new Error(`Failed to process video: ...`) }
\* finally { if (videoUrl) URL.revokeObjectURL(videoUrl) }
Reject(cause) ==
    /\ pc' = "settled"
    /\ result' = Rejected(cause)
    /\ videoUrl' = "revoked"
    /\ revocations' = revocations + 1

\* a result that reports the size of the options in either orientation
SettleUnrotated(mono, packed) ==
    IF Len(mono) = 0
    THEN Reject("No frames could be extracted from video")
    ELSE /\ pc' = "settled"
         /\ result' = [kind |-> "resolved", framesMono |-> mono, framesPacked |-> packed,
                       width |-> opts.width, height |-> opts.height,
                       fps |-> fps, duration |-> duration]
         /\ videoUrl' = "revoked"
         /\ revocations' = revocations + 1

\* lines 528-540, then finally
Settle(mono, packed) ==
    IF Len(mono) = 0
    THEN Reject("No frames could be extracted from video")
    ELSE /\ pc' = "settled"
         /\ result' = [kind |-> "resolved", framesMono |-> mono, framesPacked |-> packed,
                       width |-> CanvasWidth(opts), height |-> CanvasHeight(opts),
                       fps |-> fps, duration |-> duration]
         /\ videoUrl' = "revoked"
         /\ revocations' = revocations + 1

\* the end of one iteration of the extraction loop, whose events so far are given:
\* i++, the loop test, and either the next seek (lines 496-500) or the end of the call
NextIteration(mono, packed, events) ==
    IF i + 1 < Len(timestamps)
    THEN /\ i' = i + 1
         /\ log' = log \o events \o << <<"seek", i + 2>> >>
         /\ UNCHANGED <<pc, result, videoUrl, revocations>>
    ELSE /\ i' = i + 1
         /\ log' = log \o events
         /\ Settle(mono, packed)

\* lines 426-438: createObjectURL, create the element, await 'loadedmetadata'
Start ==
    /\ pc = "start"
    /\ pc' = "await_loadedmetadata"
    /\ videoUrl' = "held"
    /\ UNCHANGED <<sketch, server, pk, qz, opts, video, duration, totalDesired, fps, timestamps, i,
                   framesMono, framesPacked, result, skipped, warnings, revocations,
                   ctx, log, gen, page>>

\* lines 440-500: from 'loadedmetadata' to the first seek
LoadedMetadata ==
    /\ pc = "await_loadedmetadata"
    /\ video.metadata
    /\ IF video.duration <= 0       \* !video.duration || isNaN(video.duration)
       THEN /\ Reject("Invalid video duration")
            /\ UNCHANGED <<duration, totalDesired, fps, timestamps, i>>
       ELSE LET d  == CapDuration(video.duration)
                tf == ClampFps(opts.targetFps)
                td == TotalDesired(opts, d, tf)
                f  == EffectiveFps(td, d, tf)
            IN  /\ duration' = d
                /\ totalDesired' = td
                /\ fps' = f
                /\ timestamps' = Timestamps(d, f, td)
                /\ i' = 0
                /\ IF CanvasWidth(opts) <= 0 \/ CanvasHeight(opts) <= 0
                   THEN Reject("Invalid display dimensions")
                   ELSE IF ~ctx.available            \* if (!ctx) throw
                   THEN Reject("Canvas context not available")
                   ELSE IF Len(timestamps') = 0      \* the loop body never runs
                   THEN Reject("No frames could be extracted from video")
                   ELSE /\ pc' = "await_seeked"
                        /\ UNCHANGED <<result, videoUrl, revocations>>
    /\ log' = IF pc' = "await_seeked" THEN << <<"seek", 1>> >> ELSE log
    /\ UNCHANGED <<sketch, server, pk, qz, opts, video, framesMono, framesPacked, skipped, warnings,
                   ctx, gen, page>>

\* What the canvas holds when a picture is drawn through a transform that still
\* carries the translate(canvas.width, 0) and rotate(PI / 2) of an earlier frame:
\* the pixel that belongs at (x, y) lands at (w - 1 - y, x).  Exact for a square
\* canvas; on other canvases the part the turned picture does not reach is taken as
\* cleared.
Turned(data, w, h) ==
    [b \in 1..(4 * w * h) |->
        LET q  == (b - 1) \div 4
            x  == q % w
            y  == q \div w
            sx == y
            sy == w - 1 - x
        IN  IF sx < w /\ sy >= 0 /\ sy < h THEN data[4 * (sy * w + sx) + ((b - 1) % 4) + 1]
            ELSE 0]

RECURSIVE TurnedBy(_, _, _, _)
TurnedBy(data, w, h, turns) ==
    IF turns = 0 THEN data ELSE TurnedBy(Turned(data, w, h), w, h, turns - 1)

\* ctx.getImageData(0, 0, canvas.width, canvas.height).data after lines 505-516
CanvasData(k, turns) ==
    TurnedBy(ImageData(video.film, k, CanvasWidth(opts) * CanvasHeight(opts)),
             CanvasWidth(opts), CanvasHeight(opts), turns)

\* a loop body that pushes the MonoFrame and loses the packed one
SeekedMonoOnly ==
    /\ pc = "await_seeked"
    /\ LET mono == grayscaleAndThreshold(CanvasData(i, ctx.turns), Threshold(opts))
       IN  /\ framesMono' = Append(framesMono, mono)
           /\ framesPacked' = framesPacked
           /\ NextIteration(framesMono', framesPacked',
                            << <<"seeked", i + 1>>, <<"draw", i + 1>>, <<"push", i + 1>> >>)
    /\ UNCHANGED <<sketch, server, pk, qz, opts, video, duration, totalDesired, fps, timestamps, skipped,
                   warnings, ctx, gen, page>>

\* a loop body that draws without waiting for the seek to end
SeekedDrawsEarly ==
    /\ pc = "await_seeked"
    /\ LET w      == CanvasWidth(opts)
           h      == CanvasHeight(opts)
           mono   == grayscaleAndThreshold(CanvasData(i, ctx.turns), Threshold(opts))
           packed == packRowMajor(mono, w, h)
       IN  /\ framesMono' = Append(framesMono, mono)
           /\ framesPacked' = Append(framesPacked, packed)
           /\ NextIteration(framesMono', framesPacked',
                            << <<"draw", i + 1>>, <<"push", i + 1>> >>)
    /\ UNCHANGED <<sketch, server, pk, qz, opts, video, duration, totalDesired, fps, timestamps, skipped,
                   warnings, ctx, gen, page>>

\* lines 502-521: 'seeked' fires; save, clear, draw, restore, read back, quantize,
\* pack, push both.  restore() undoes this frame's save(), so the context is left
\* as the frame found it.
Seeked ==
    /\ pc = "await_seeked"
    /\ LET w      == CanvasWidth(opts)
           h      == CanvasHeight(opts)
           mono   == grayscaleAndThreshold(CanvasData(i, ctx.turns), Threshold(opts))
           packed == packRowMajor(mono, w, h)
       IN  /\ framesMono' = Append(framesMono, mono)
           /\ framesPacked' = Append(framesPacked, packed)
           /\ NextIteration(framesMono', framesPacked',
                            << <<"seeked", i + 1>>, <<"draw", i + 1>>, <<"push", i + 1>> >>)
    /\ UNCHANGED <<sketch, server, pk, qz, opts, video, duration, totalDesired, fps, timestamps, skipped,
                   warnings, ctx, gen, page>>

\* lines 522-525: the seek or the draw throws; the frame is skipped
MaxSkips == 3

\* a loop whose catch gives up the whole call at the first failing frame
SkipFrameAbort ==
    /\ pc = "await_seeked"
    /\ skipped < MaxSkips
    /\ skipped' = skipped + 1
    /\ warnings' = Append(warnings, timestamps[i + 1])
    /\ log' = log \o << <<"threw", i + 1>>, <<"skip", i + 1>> >>
    /\ i' = i
    /\ Reject("seek failed")
    /\ UNCHANGED <<sketch, server, pk, qz, opts, video, duration, totalDesired, fps, timestamps,
                   framesMono, framesPacked, ctx, gen, page>>

\* the seek of lines 496-500 has thrown: the catch of line 522 runs before the
\* context is touched
SkipFrame ==
    /\ pc = "await_seeked"
    /\ skipped < MaxSkips
    /\ skipped' = skipped + 1
    /\ warnings' = Append(warnings, timestamps[i + 1])
    /\ NextIteration(framesMono, framesPacked, << <<"threw", i + 1>>, <<"skip", i + 1>> >>)
    /\ UNCHANGED <<sketch, server, pk, qz, opts, video, duration, totalDesired, fps, timestamps,
                   framesMono, framesPacked, ctx, gen, page>>

\* failed draws followed within one call
MaxLeftover == 1

\* lines 502-513, then 522-525: 'seeked' fires, save() and clearRect() run, in
\* vertical orientation translate() and rotate() too, and drawImage throws; the
\* catch runs with restore() of line 516 not reached
DrawFailed ==
    /\ pc = "await_seeked"
    /\ skipped < MaxSkips
    /\ ctx.saved < MaxLeftover
    /\ skipped' = skipped + 1
    /\ warnings' = Append(warnings, timestamps[i + 1])
    /\ ctx' = [ctx EXCEPT !.saved = ctx.saved + 1,
                          !.turns = IF opts.orientation = "vertical"
                                    THEN ctx.turns + 1 ELSE ctx.turns]
    /\ NextIteration(framesMono, framesPacked, << <<"seeked", i + 1>>, <<"skip", i + 1>> >>)
    /\ UNCHANGED <<sketch, server, pk, qz, opts, video, duration, totalDesired, fps, timestamps,
                   framesMono, framesPacked, gen, page>>

(***************************************************************************)
(* Spec: one processVideo call                                             *)
(***************************************************************************)
MaxDurTicks     == 4
MaxTargetFps    == 3
MaxMaxFrames    == 3
MaxTargetFrames == 4
MaxOptWidth     == 9
MaxOptHeight    == 2

\* video.duration in ticks: NaN (-1), 0, short clips, and clips at and over the cap
DurationSet  == (-1..MaxDurTicks) \cup {30 * DurDen, 30 * DurDen + 1}
TargetFpsSet == (0..MaxTargetFps) \cup {30, 31}
Films        == {"gray", "flash", "edge"}

PvStart ==
    /\ pc = "start"
    /\ duration = 0
    /\ totalDesired = 0
    /\ fps = <<0, 1>>
    /\ timestamps = <<>>
    /\ i = 0
    /\ framesMono = <<>>
    /\ framesPacked = <<>>
    /\ result = Pending
    /\ videoUrl = "null"
    /\ skipped = 0
    /\ warnings = <<>>
    /\ revocations = 0
    /\ log = <<>>

\* the sampler's inputs vary, the display is one pixel
InitSampler ==
    \E d \in DurationSet, tf \in TargetFpsSet, mf \in 1..MaxMaxFrames,
       n \in 0..MaxTargetFrames :
        /\ opts = [width |-> 1, height |-> 1, orientation |-> "horizontal",
                   targetFps |-> tf, maxFrames |-> mf, targetFrames |-> n,
                   threshold |-> 128]
        /\ video = [duration |-> d, metadata |-> TRUE, film |-> "flash"]

\* the display and the picture vary, the clip is 2 seconds sampled 3 times
InitRaster ==
    \E w \in 0..MaxOptWidth, h \in 0..MaxOptHeight, o \in {"horizontal", "vertical"},
       t \in {-1, 128, 129}, film \in Films :
        /\ opts = [width |-> w, height |-> h, orientation |-> o,
                   targetFps |-> 30, maxFrames |-> 3, targetFrames |-> 0,
                   threshold |-> t]
        /\ video = [duration |-> 2 * DurDen, metadata |-> TRUE, film |-> film]

\* the options of the page (Index.tsx, lines 79-87) and of the documented examples
InitExamples ==
    \/ \E mf \in {20, 300}, tf \in {3, 30} :
          /\ opts = [width |-> 1, height |-> 1, orientation |-> "horizontal",
                     targetFps |-> tf, maxFrames |-> mf, targetFrames |-> 10,
                     threshold |-> 128]
          /\ video = [duration |-> 2 * DurDen, metadata |-> TRUE, film |-> "flash"]
    \/ \E d \in {1, 2 * DurDen} :
          /\ opts = [width |-> 1, height |-> 1, orientation |-> "horizontal",
                     targetFps |-> 30, maxFrames |-> 20, targetFrames |-> 50,
                     threshold |-> 128]
          /\ video = [duration |-> d, metadata |-> TRUE, film |-> "flash"]

\* a file whose metadata never loads
InitNoMetadata ==
    /\ opts = [width |-> 1, height |-> 1, orientation |-> "horizontal",
               targetFps |-> 30, maxFrames |-> 3, targetFrames |-> 0, threshold |-> 128]
    /\ video = [duration |-> -1, metadata |-> FALSE, film |-> "gray"]

\* a frame budget of zero or less
InitNoBudget ==
    \E mf \in {0, -1}, d \in {1, 2 * DurDen, 30 * DurDen}, tf \in {0, 3, 31}, n \in {0, 2} :
        /\ opts = [width |-> 1, height |-> 1, orientation |-> "horizontal",
                   targetFps |-> tf, maxFrames |-> mf, targetFrames |-> n,
                   threshold |-> 128]
        /\ video = [duration |-> d, metadata |-> TRUE, film |-> "flash"]

\* a page where canvas.getContext('2d') returns null
InitNoContext ==
    /\ \E w \in {0, 2}, o \in {"horizontal", "vertical"}, d \in {0, 2 * DurDen} :
          /\ opts = [width |-> w, height |-> 1, orientation |-> o,
                     targetFps |-> 30, maxFrames |-> 3, targetFrames |-> 0,
                     threshold |-> 128]
          /\ video = [duration |-> d, metadata |-> TRUE, film |-> "edge"]
    /\ ctx = Context(FALSE)

Init ==
    /\ pk = PkIdle
    /\ sketch = SketchIdle
    /\ server = ServerIdle
    /\ qz = QzIdle
    /\ PvStart
    /\ gen = GenIdle
    /\ page = PageIdle
    /\ \/ /\ InitSampler \/ InitRaster \/ InitExamples \/ InitNoMetadata \/ InitNoBudget
          /\ ctx = Context(TRUE)
       \/ InitNoContext

Next == Start \/ LoadedMetadata \/ Seeked \/ SkipFrame \/ DrawFailed

Spec == Init /\ [][Next]_vars

\* The same call under the browser's event loop: the synchronous prefix of the
\* call runs, and the continuation of waitEvent runs once 'loadedmetadata' has
\* fired.  Nothing is assumed about how long the decoder takes to end a seek.
SpecLive == Spec /\ WF_vars(Start) /\ WF_vars(LoadedMetadata)

\* the packers on their own frames, and a processVideo call
InitPacked == InitPack \/ Init

NextPacked == NextPack \/ Next

SpecPacked == InitPacked /\ [][NextPacked]_vars

\* C4: the quantizer threshold is inclusive.  The output has one value per RGBA
\* pixel, and the value of a pixel is 1 if and only if
\* 0.299*R + 0.587*G + 0.114*B >= threshold (alpha ignored); an all-(128,128,128)
\* frame gives all 1 at threshold 128 and all 0 at threshold 129.
C4_ThresholdInclusive ==
    \A run \in {qz.run1, qz.run2} :
        run # <<>> =>
            /\ Len(run[1]) = Len(qz.data) \div 4
            /\ \A j \in 1..Len(run[1]) :
                 LET r == qz.data[4 * (j - 1) + 1]
                     g == qz.data[4 * (j - 1) + 2]
                     b == qz.data[4 * (j - 1) + 3]
                 IN  run[1][j] = 1 <=> 299 * r + 587 * g + 114 * b >= 1000 * qz.threshold

\* C5: quantizer determinism.  Two runs of grayscaleAndThreshold on the same pixels
\* and threshold return the same MonoFrame, and so do two runs of
\* convertImageToMonochrome on the same image, size and threshold.
C5_QuantizerDeterministic ==
    /\ (qz.run1 # <<>> /\ qz.run2 # <<>>) => qz.run1 = qz.run2
    /\ (qz.conv1 # <<>> /\ qz.conv2 # <<>>) => qz.conv1 = qz.conv2

(***************************************************************************)
(* Claims about processVideo                                               *)
(***************************************************************************)
\* the sampler has run on a duration it accepts
Sampled == pc \in {"await_seeked", "settled"} /\ video.duration > 0

\* what the claims call clamp(targetFps,1,30), the capped duration (ticks) and
\* min(maxFrames, targetFrames if set and > 0, else floor(duration * clamp(targetFps)))
ClaimFps == IF opts.targetFps < 1 THEN 1 ELSE IF opts.targetFps > 30 THEN 30 ELSE opts.targetFps
ClaimDuration == IF video.duration > 30 * DurDen THEN 30 * DurDen ELSE video.duration
ClaimWanted ==
    IF opts.targetFrames > 0 THEN opts.targetFrames
    ELSE (ClaimDuration * ClaimFps) \div DurDen
ClaimCount == IF opts.maxFrames < ClaimWanted THEN opts.maxFrames ELSE ClaimWanted

\* C2: packed size.  Every packed frame has exactly ceil(width/8)*height bytes,
\* whatever its pixels are (128x64 gives 1024): the frames both packers return, the
\* frames of the extraction loop and the frames of every ProcessResult, for the
\* result's width and height.
C2_PackedSize ==
    /\ \A p \in {pk.browser, pk.backend} :
          p # <<>> => Len(p[1]) = CeilDiv(pk.width, 8) * pk.height
    /\ \A k \in DOMAIN framesPacked :
          Len(framesPacked[k]) = CeilDiv(CanvasWidth(opts), 8) * CanvasHeight(opts)
    /\ result.kind = "resolved" =>
          \A k \in DOMAIN result.framesPacked :
              Len(result.framesPacked[k]) = CeilDiv(result.width, 8) * result.height
    /\ BytesPerRow(128) * 64 = 1024

\* A result of two frames of different pixels on a display of two bytes per row.
C2_Witness ==
    /\ result.kind = "resolved"
    /\ result.width > 8 /\ result.height > 1
    /\ Len(result.framesPacked) > 1
    /\ result.framesPacked[1] # result.framesPacked[2]

\* C6 as claimed: with targetFrames > 0 and no frame skipped, processVideo returns
\* exactly min(maxFrames, targetFrames) frames, for any duration and targetFps.
C6_ExactlyTargetFrames ==
    (result.kind = "resolved" /\ opts.targetFrames > 0 /\ skipped = 0) =>
        Len(result.framesMono) = Min(opts.maxFrames, opts.targetFrames)

\* C6 amended: with targetFrames > 0, maxFrames >= 1 and no frame skipped,
\* processVideo returns at most min(maxFrames, targetFrames) frames, and exactly that
\* many when clamp(targetFps,1,30) * min(duration,30) >= min(maxFrames, targetFrames).
C6_TargetFramesWhenDense ==
    (result.kind = "resolved" /\ opts.targetFrames > 0 /\ opts.maxFrames >= 1
        /\ skipped = 0) =>
        /\ Len(result.framesMono) <= ClaimCount
        /\ ClaimFps * ClaimDuration >= ClaimCount * DurDen =>
              Len(result.framesMono) = ClaimCount

\* maxFrames = 20, targetFrames = 50, nothing skipped: exactly 20 frames
C6_Witness ==
    /\ result.kind = "resolved" /\ skipped = 0
    /\ opts.maxFrames = 20 /\ opts.targetFrames = 50
    /\ Len(result.framesMono) = 20

\* C7: minimum one frame.  For every duration the sampler accepts the timestamp
\* sequence has length >= 1, being the single timestamp 0 when stepping yields
\* none, and every ProcessResult returned has at least one MonoFrame.
C7_MinimumOneFrame ==
    /\ Sampled =>
          /\ Len(timestamps) >= 1
          /\ ClaimCount <= 0 => (Len(timestamps) = 1 /\ timestamps[1][1] = 0)
    /\ result.kind = "resolved" => Len(result.framesMono) >= 1

\* The shortest clip, too short for one frame at its fps, resolved with one frame.
C7_Witness ==
    /\ result.kind = "resolved"
    /\ video.duration = 1 /\ opts.targetFrames = 0 /\ totalDesired = 0
    /\ Len(result.framesMono) = 1

\* the parts of C8 that do not bound the count
TimestampShape ==
    /\ timestamps[1][1] = 0
    /\ \A k \in 1..(Len(timestamps) - 1) :
          \* timestamps[k+1] - timestamps[k] = 1 / fps
          (timestamps[k + 1][1] * timestamps[k][2] - timestamps[k][1] * timestamps[k + 1][2])
              * fps[1] = fps[2] * timestamps[k][2] * timestamps[k + 1][2]
    /\ \A k \in DOMAIN timestamps :
          /\ timestamps[k][1] >= 0
          /\ timestamps[k][1] * DurDen <= duration * timestamps[k][2]

\* C8 as claimed: the timestamps start at 0, go up in steps of 1/fps, lie in
\* [0, duration], and are at most
\* min(maxFrames, targetFrames or floor(duration * clamp(targetFps,1,30))) many.
C8_CountAtMostDesired ==
    Sampled => (TimestampShape /\ Len(timestamps) <= ClaimCount)

\* C8 amended: the same, the count being at most the larger of 1 and that minimum.
C8_CountAtMostDesiredOrOne ==
    Sampled => (TimestampShape /\ Len(timestamps) <= Max(1, ClaimCount))

\* three timestamps 0, 1/fps, 2/fps of a clip cut short by maxFrames
C8_Witness ==
    /\ Sampled
    /\ Len(timestamps) = 3 /\ ClaimCount = 3
    /\ timestamps[3][1] > 0
    /\ opts.targetFrames = 0

\* the fps of the claim: min(clamp(targetFps), totalDesired/duration) or clamp(targetFps)
ClaimFpsFormula ==
    IF ClaimCount > 0
    THEN (IF ClaimCount * DurDen < ClaimFps * ClaimDuration
          THEN <<ClaimCount * DurDen, ClaimDuration>> ELSE <<ClaimFps, 1>>)
    ELSE <<ClaimFps, 1>>

C10_ParallelSequences ==
    /\ Len(framesMono) = Len(framesPacked)
    /\ \A k \in DOMAIN framesMono :
          framesPacked[k] = packRowMajor(framesMono[k], CanvasWidth(opts), CanvasHeight(opts))
    /\ result.kind = "resolved" =>
          /\ Len(result.framesMono) = Len(result.framesPacked)
          /\ \A k \in DOMAIN result.framesMono :
                result.framesPacked[k] =
                    packRowMajor(result.framesMono[k], result.width, result.height)

\* a result of two frames with a skipped frame between them
C10_Witness ==
    /\ result.kind = "resolved"
    /\ Len(timestamps) = 3 /\ skipped = 1
    /\ Len(result.framesMono) = 2
    /\ result.width > 8
    /\ result.framesMono[1] = result.framesMono[2]

\* the draw of timestamps[j] failed after its seek had ended
DrawFailedAt(j) ==
    \E p \in DOMAIN log : p > 1 /\ log[p] = <<"skip", j>> /\ log[p - 1] = <<"seeked", j>>

\* the quarter turns earlier failed draws have left in the transform at timestamps[k]
LeftoverTurns(k) ==
    IF opts.orientation = "vertical"
    THEN Cardinality({j \in 1..(k - 1) : DrawFailedAt(j)})
    ELSE 0

\* the MonoFrame of what the canvas holds once timestamps[k] has been drawn
FrameAt(k) == grayscaleAndThreshold(CanvasData(k - 1, LeftoverTurns(k)), Threshold(opts))

\* the seek or the draw of timestamps[k] failed
Warned(k) == \E j \in DOMAIN warnings : warnings[j] = timestamps[k]

\* the positions of the timestamps that did not fail, in timestamp order
KeptIndices == SelectSeq([k \in 1..Len(timestamps) |-> k], LAMBDA k : ~Warned(k))

\* C11: per-frame failure policy.  A ProcessResult holds the frames of exactly the
\* timestamps whose seek and draw did not fail, in timestamp order; a failing frame
\* never aborts the call while another frame survives; and a call all of whose
\* timestamps failed is rejected with the 'no frames extracted' error.
C11_SkipFailedFrames ==
    /\ result.kind = "resolved" =>
          /\ i = Len(timestamps)
          /\ Len(warnings) = skipped
          /\ result.framesMono = [j \in 1..Len(KeptIndices) |-> FrameAt(KeptIndices[j])]
          /\ result.framesPacked =
                [j \in 1..Len(KeptIndices) |->
                    packRowMajor(FrameAt(KeptIndices[j]), result.width, result.height)]
    /\ (result.kind = "rejected" /\ Len(warnings) > 0) =>
          /\ Len(KeptIndices) = 0
          /\ i = Len(timestamps)
    /\ (pc = "settled" /\ Len(timestamps) > 0 /\ Len(warnings) = Len(timestamps)) =>
          result = Rejected("No frames could be extracted from video")

\* three timestamps showing three different pictures, the second one failed
C11_Witness ==
    /\ result.kind = "resolved"
    /\ Len(timestamps) = 3
    /\ warnings = <<timestamps[2]>>
    /\ FrameAt(1) # FrameAt(2) /\ FrameAt(2) # FrameAt(3) /\ FrameAt(1) # FrameAt(3)
    /\ result.framesMono = <<FrameAt(1), FrameAt(3)>>

\* C12: resource release.  URL.revokeObjectURL is called exactly once for a call
\* that has settled, whether it resolved (with or without skipped frames) or was
\* rejected (validation error, no frame extracted), and it is not called while
\* the call can still read a frame: a released URL means a settled call whose
\* result, if any, was built from a finished loop.
C12_ReleasedOnce ==
    /\ revocations <= 1
    /\ pc = "settled" => (revocations = 1 /\ videoUrl = "revoked")
    /\ revocations > 0 => pc = "settled"
    /\ videoUrl = "revoked" <=> revocations = 1
    /\ (revocations > 0 /\ result.kind = "resolved") => i = Len(timestamps)
    /\ pc \in {"await_loadedmetadata", "await_seeked"} => videoUrl = "held"

\* a call that resolved after a skipped frame and released its URL
C12_Witness ==
    /\ result.kind = "resolved"
    /\ skipped > 0
    /\ Len(result.framesMono) = 2
    /\ revocations = 1

\* the input of the call is bad: no metadata ever loads, or the duration is 0 or NaN
BadInput == ~video.metadata \/ video.duration <= 0

\* C13: input errors fail the call.  A call on a file whose metadata never loads,
\* or whose duration is zero or unreadable, is eventually rejected with an error,
\* with no frames returned and its object URL released.
C13_InputErrorsFail ==
    (pc = "start" /\ BadInput) ~>
        (pc = "settled" /\ result.kind = "rejected" /\ videoUrl = "revoked")

(***************************************************************************)
(* Code generator.  A text is a sequence of pieces: single characters      *)
(* where the text depends on the frames, whole template lines elsewhere.   *)
(* A frame of framesPacked is <<bytes>>, and <<>> when it is null.         *)
(***************************************************************************)
Thrown(message) == [kind |-> "error", message |-> message, text |-> <<>>]
Returned(text)  == [kind |-> "text", message |-> <<>>, text |-> text]

\* `${n}` for a non-negative integer n
RECURSIVE Decimal(_)
Decimal(n) ==
    LET digit == <<"0", "1", "2", "3", "4", "5", "6", "7", "8", "9">>[(n % 10) + 1]
    IN  IF n < 10 THEN <<digit>> ELSE Decimal(n \div 10) \o <<digit>>

\* Array.prototype.join
RECURSIVE Join(_, _)
Join(parts, sep) ==
    IF Len(parts) = 0 THEN <<>>
    ELSE IF Len(parts) = 1 THEN parts[1]
    ELSE parts[1] \o sep \o Join(Tail(parts), sep)

\* Array.prototype.slice(from, to), 0-based, to exclusive
Slice(arr, from, to) == SubSeq(arr, from + 1, Min(to, Len(arr)))

\* Number.prototype.toString(16) of a byte
ToString16(b) ==
    LET digits == <<"0", "1", "2", "3", "4", "5", "6", "7", "8", "9",
                    "a", "b", "c", "d", "e", "f">>
    IN  IF b < 16 THEN <<digits[b + 1]>>
        ELSE <<digits[(b \div 16) + 1], digits[(b % 16) + 1]>>

\* String.prototype.toUpperCase on hex digits
ToUpperCase(str) ==
    [j \in DOMAIN str |->
        CASE str[j] = "a" -> "A" [] str[j] = "b" -> "B" [] str[j] = "c" -> "C"
          [] str[j] = "d" -> "D" [] str[j] = "e" -> "E" [] str[j] = "f" -> "F"
          [] OTHER -> str[j]]

\* String.prototype.padStart(n, c)
RECURSIVE PadStart(_, _, _)
PadStart(str, n, c) == IF Len(str) >= n THEN str ELSE PadStart(<<c>> \o str, n, c)

\* a literal that keeps the lower-case digits of toString(16)
HexLiteralLowerCase(b) == <<"0", "x">> \o PadStart(ToString16(b), 2, "0")

\* '0x' + frameData[i].toString(16).toUpperCase().padStart(2, '0')
HexLiteral(b) == <<"0", "x">> \o PadStart(ToUpperCase(ToString16(b)), 2, "0")

\* lines that all end in a comma, the last one included
RECURSIVE FormatLinesTrailingComma(_, _)
FormatLinesTrailingComma(allHexBytes, from) ==
    IF from >= Len(allHexBytes) THEN <<>>
    ELSE <<(<<" ", " ">> \o Join(Slice(allHexBytes, from, from + 16), <<",", " ">>) \o <<",">>)>>
         \o FormatLinesTrailingComma(allHexBytes, from + 16)

\* for (let i = 0; i < allHexBytes.length; i += 16) lines.push(...)
RECURSIVE FormatLines(_, _)
FormatLines(allHexBytes, from) ==
    IF from >= Len(allHexBytes) THEN <<>>
    ELSE LET lineBytes  == Slice(allHexBytes, from, from + 16)
             isLastLine == from + 16 >= Len(allHexBytes)
         IN  <<(<<" ", " ">> \o Join(lineBytes, <<",", " ">>)
                \o (IF isLastLine THEN <<>> ELSE <<",">>))>>
             \o FormatLines(allHexBytes, from + 16)

\* the callback of framesPacked.map for a frame that is an array: one C array.
\* (databaseService.js, lines 658-672, has the same statements.)
FrameC(frameData, idx) ==
    LET allHexBytes == [j \in DOMAIN frameData |-> HexLiteral(frameData[j])]
        lines       == FormatLines(allHexBytes, 0)
    IN  <<"const uint8_t PROGMEM frame_">> \o Decimal(idx) \o <<"[">>
        \o Decimal(Len(frameData)) \o <<"] = {", "\n">>
        \o Join(lines, <<"\n">>) \o <<"\n", "};">>

\* framesPacked.map(...).join('\n\n')
FramesC(frames) ==
    Join([k \in DOMAIN frames |-> FrameC(frames[k][1], k - 1)], <<"\n", "\n">>)

\* an index array that leaves out the last frame
FramesIndexShort(frames) ==
    <<"const uint8_t* const frames[] PROGMEM = {", "\n", " ", " ">>
    \o Join([k \in 1..(Len(frames) - 1) |-> <<"frame_">> \o Decimal(k - 1)], <<",", " ">>)
    \o <<"\n", "};">>

\* const framesIndex = `const uint8_t* const frames[] PROGMEM = {...};`
\* (databaseService.js, line 674, has the same statement.)
FramesIndex(frames) ==
    <<"const uint8_t* const frames[] PROGMEM = {", "\n", " ", " ">>
    \o Join([k \in DOMAIN frames |-> <<"frame_">> \o Decimal(k - 1)], <<",", " ">>)
    \o <<"\n", "};">>

\* Math.round(a / b) for positive integers: halves go up
RoundDiv(a, b) == (2 * a + b) \div (2 * b)

\* a delay that truncates instead of rounding
FrameDelayTruncated(f) == Max(1, (1000 * f[2]) \div f[1])

\* const frameDelay = Math.max(1, Math.round(1000 / fps)), fps = f[1] / f[2] > 0.
\* (databaseService.js, line 654, has the same statement.)
FrameDelay(f) == Max(1, RoundDiv(1000 * f[2], f[1]))

\* The three templates of part_005; frameDelay is a number.
\* lines 599-636
U8g2Template(framesC, framesIndex, width, height, frameDelay) ==
    <<"#include <U8g2lib.h>\n", "#include <Wire.h>\n", "\n", "#define SCREEN_WIDTH " >>
    \o Decimal(width)
    \o <<"\n", "#define SCREEN_HEIGHT " >>
    \o Decimal(height)
    \o <<"\n", "\n", "U8G2_SSD1306_128X64_NONAME_F_HW_I2C u8g2(U8G2_R0, U8X8_PIN_NONE);\n", "\n" >>
    \o framesC
    \o <<"\n", "\n" >>
    \o framesIndex
    \o <<"\n", "\n", "const int FRAME_COUNT = sizeof(frames) / sizeof(frames[0]);\n",
        "const int FRAME_DELAY = " >>
    \o Decimal(frameDelay)
    \o <<";\n", "\n", "void setup() {\n", "  Serial.begin(115200);\n", "  u8g2.begin();\n",
        "  u8g2.clearBuffer();\n", "  u8g2.sendBuffer();\n", "}\n", "\n", "void loop() {\n",
        "  while (true) {\n", "    for (int frame = 0; frame < FRAME_COUNT; frame++) {\n",
        "      unsigned long start = millis();\n", "      \n", "      u8g2.firstPage();\n",
        "      do {\n",
        "        u8g2.drawXBMP(0, 0, SCREEN_WIDTH, SCREEN_HEIGHT, (const uint8_t*)pgm_read_ptr(&frames[frame]));\n",
        "      } while (u8g2.nextPage());\n", "      \n",
        "      while (millis() - start < FRAME_DELAY) {\n", "      }\n", "    }\n", "  }\n",
        "}\n" >>

\* lines 641-679
SSD1331Template(framesC, framesIndex, width, height, frameDelay) ==
    <<"#include <SPI.h>\n", "#include <Adafruit_GFX.h>\n", "#include <Adafruit_SSD1331.h>\n",
        "\n", "#define SCREEN_WIDTH " >>
    \o Decimal(width)
    \o <<"\n", "#define SCREEN_HEIGHT " >>
    \o Decimal(height)
    \o <<"\n", "#define CS   10\n", "#define DC   9\n", "#define RST  8\n", "\n",
        "Adafruit_SSD1331 display = Adafruit_SSD1331(&SPI, CS, DC, RST);\n", "\n" >>
    \o framesC
    \o <<"\n", "\n" >>
    \o framesIndex
    \o <<"\n", "\n", "const int FRAME_COUNT = sizeof(frames) / sizeof(frames[0]);\n",
        "const int FRAME_DELAY = " >>
    \o Decimal(frameDelay)
    \o <<";\n", "\n", "void setup() {\n", "  Serial.begin(115200);\n", "  display.begin();\n",
        "  display.fillScreen(0x0000);\n", "}\n", "\n", "void loop() {\n", "  while (true) {\n",
        "    for (int frame = 0; frame < FRAME_COUNT; frame++) {\n",
        "      unsigned long start = millis();\n", "      \n",
        "      display.fillScreen(0x0000);\n",
        "      display.drawXBitmap(0, 0, (const uint8_t*)pgm_read_ptr(&frames[frame]), SCREEN_WIDTH, SCREEN_HEIGHT, 0xFFFF);\n",
        "      \n", "      while (millis() - start < FRAME_DELAY) {\n", "      }\n", "    }\n",
        "  }\n", "}\n" >>

\* a default branch that returns the U8g2 program
SSD1306TemplateAsU8g2(framesC, framesIndex, width, height, frameDelay) ==
    U8g2Template(framesC, framesIndex, width, height, frameDelay)

\* lines 683-726
SSD1306Template(framesC, framesIndex, width, height, frameDelay) ==
    <<"#include <Wire.h>\n", "#include <Adafruit_GFX.h>\n", "#include <Adafruit_SSD1306.h>\n",
        "\n", "#define SCREEN_WIDTH " >>
    \o Decimal(width)
    \o <<"\n", "#define SCREEN_HEIGHT " >>
    \o Decimal(height)
    \o <<"\n", "#define OLED_RESET -1\n", "\n",
        "Adafruit_SSD1306 display(SCREEN_WIDTH, SCREEN_HEIGHT, &Wire, OLED_RESET);\n", "\n" >>
    \o framesC
    \o <<"\n", "\n" >>
    \o framesIndex
    \o <<"\n", "\n", "const int FRAME_COUNT = sizeof(frames) / sizeof(frames[0]);\n",
        "const int FRAME_DELAY = " >>
    \o Decimal(frameDelay)
    \o <<";\n", "\n", "void setup() {\n", "  Serial.begin(115200);\n", "  \n",
        "  if (!display.begin(SSD1306_SWITCHCAPVCC, 0x3C)) {\n",
        "    Serial.println(F(\"SSD1306 allocation failed\"));\n", "    for(;;);\n", "  }\n",
        "  \n", "  display.clearDisplay();\n", "  display.display();\n", "}\n", "\n",
        "void loop() {\n", "  while (true) {\n",
        "    for (int frame = 0; frame < FRAME_COUNT; frame++) {\n",
        "      unsigned long start = millis();\n", "      \n",
        "      display.clearDisplay();\n",
        "      display.display.drawXBitmap(0, 0, (const uint8_t*)pgm_read_ptr(&frames[frame]), SCREEN_WIDTH, SCREEN_HEIGHT, 1);\n",
        "      display.display();\n", "      \n",
        "      while (millis() - start < FRAME_DELAY) {\n", "      }\n", "    }\n", "  }\n",
        "}\n" >>

\* a generator whose default branch is the U8g2 program
generateArduinoCodeDefaultU8g2(frames, width, height, f, library) ==
    IF \E k \in DOMAIN frames : frames[k] = <<>> \/ Len(frames[k][1]) = 0
    THEN Thrown(<<"No frame data provided">>)
    ELSE Returned(
           IF library = "adafruit_gfx_ssd1306"
           THEN SSD1306Template(FramesC(frames), FramesIndex(frames), width, height,
                                FrameDelay(f))
           ELSE IF library = "adafruit_gfx_ssd1331"
           THEN SSD1331Template(FramesC(frames), FramesIndex(frames), width, height,
                                FrameDelay(f))
           ELSE U8g2Template(FramesC(frames), FramesIndex(frames), width, height,
                             FrameDelay(f)))

\* part_005, lines 553-727.  library is any string; "undefined" stands for undefined.
generateArduinoCode(frames, width, height, f, library) ==
    IF Len(frames) = 0
    THEN Thrown(<<"No frame data provided">>)
    ELSE LET frameDelay == FrameDelay(f)
             bad == {k \in DOMAIN frames :
                        frames[k] = <<>> \/ Len(frames[k][1]) = 0}
         IN  IF bad # {}
             THEN LET idx == (CHOOSE k \in bad : \A m \in bad : k <= m) - 1
                  IN  Thrown(<<"Frame ">> \o Decimal(idx) \o <<" is empty or invalid">>)
             ELSE LET framesC     == FramesC(frames)
                      framesIndex == FramesIndex(frames)
                  IN  Returned(
                        IF library = "u8g2"
                        THEN U8g2Template(framesC, framesIndex, width, height, frameDelay)
                        ELSE IF library = "adafruit_gfx_ssd1331"
                        THEN SSD1331Template(framesC, framesIndex, width, height, frameDelay)
                        ELSE SSD1306Template(framesC, framesIndex, width, height, frameDelay))

\* The three templates of databaseService.js.
\* lines 687-729
generateSSD1306Code(framesC, framesIndex, width, height, frameDelay) ==
    <<"#include <Wire.h>\n", "#include <Adafruit_GFX.h>\n", "#include <Adafruit_SSD1306.h>\n",
        "\n", "#define SCREEN_WIDTH " >>
    \o Decimal(width)
    \o <<"\n", "#define SCREEN_HEIGHT " >>
    \o Decimal(height)
    \o <<"\n", "#define OLED_RESET -1\n", "\n",
        "Adafruit_SSD1306 display(SCREEN_WIDTH, SCREEN_HEIGHT, &Wire, OLED_RESET);\n", "\n" >>
    \o framesC
    \o <<"\n", "\n" >>
    \o framesIndex
    \o <<"\n", "\n", "const int FRAME_COUNT = sizeof(frames) / sizeof(frames[0]);\n",
        "const int FRAME_DELAY = " >>
    \o Decimal(frameDelay)
    \o <<";\n", "\n", "void setup() {\n", "  Serial.begin(115200);\n", "  \n",
        "  if (!display.begin(SSD1306_SWITCHCAPVCC, 0x3C)) {\n",
        "    Serial.println(F(\"SSD1306 allocation failed\"));\n", "    for(;;);\n", "  }\n",
        "  \n", "  display.clearDisplay();\n", "  display.display();\n", "}\n", "\n",
        "void loop() {\n", "  while (true) {\n",
        "    for (int frame = 0; frame < FRAME_COUNT; frame++) {\n",
        "      unsigned long start = millis();\n", "      \n",
        "      display.clearDisplay();\n",
        "      display.drawXBitmap(0, 0, (const uint8_t*)pgm_read_ptr(&frames[frame]), SCREEN_WIDTH, SCREEN_HEIGHT, 1);\n",
        "      display.display();\n", "      \n",
        "      while (millis() - start < FRAME_DELAY) {\n", "      }\n", "    }\n", "  }\n",
        "}" >>

\* lines 733-769
generateU8g2Code(framesC, framesIndex, width, height, frameDelay) ==
    <<"#include <U8g2lib.h>\n", "#include <Wire.h>\n", "\n", "#define SCREEN_WIDTH " >>
    \o Decimal(width)
    \o <<"\n", "#define SCREEN_HEIGHT " >>
    \o Decimal(height)
    \o <<"\n", "\n", "U8G2_SSD1306_128X64_NONAME_F_HW_I2C u8g2(U8G2_R0, U8X8_PIN_NONE);\n", "\n" >>
    \o framesC
    \o <<"\n", "\n" >>
    \o framesIndex
    \o <<"\n", "\n", "const int FRAME_COUNT = sizeof(frames) / sizeof(frames[0]);\n",
        "const int FRAME_DELAY = " >>
    \o Decimal(frameDelay)
    \o <<";\n", "\n", "void setup() {\n", "  Serial.begin(115200);\n", "  u8g2.begin();\n",
        "  u8g2.clearBuffer();\n", "  u8g2.sendBuffer();\n", "}\n", "\n", "void loop() {\n",
        "  while (true) {\n", "    for (int frame = 0; frame < FRAME_COUNT; frame++) {\n",
        "      unsigned long start = millis();\n", "      \n", "      u8g2.firstPage();\n",
        "      do {\n",
        "        u8g2.drawXBMP(0, 0, SCREEN_WIDTH, SCREEN_HEIGHT, (const uint8_t*)pgm_read_ptr(&frames[frame]));\n",
        "      } while (u8g2.nextPage());\n", "      \n",
        "      while (millis() - start < FRAME_DELAY) {\n", "      }\n", "    }\n", "  }\n",
        "}" >>

\* lines 773-810
generateSSD1331Code(framesC, framesIndex, width, height, frameDelay) ==
    <<"#include <SPI.h>\n", "#include <Adafruit_GFX.h>\n", "#include <Adafruit_SSD1331.h>\n",
        "\n", "#define SCREEN_WIDTH " >>
    \o Decimal(width)
    \o <<"\n", "#define SCREEN_HEIGHT " >>
    \o Decimal(height)
    \o <<"\n", "#define CS   10\n", "#define DC   9\n", "#define RST  8\n", "\n",
        "Adafruit_SSD1331 display = Adafruit_SSD1331(&SPI, CS, DC, RST);\n", "\n" >>
    \o framesC
    \o <<"\n", "\n" >>
    \o framesIndex
    \o <<"\n", "\n", "const int FRAME_COUNT = sizeof(frames) / sizeof(frames[0]);\n",
        "const int FRAME_DELAY = " >>
    \o Decimal(frameDelay)
    \o <<";\n", "\n", "void setup() {\n", "  Serial.begin(115200);\n", "  display.begin();\n",
        "  display.fillScreen(0x0000);\n", "}\n", "\n", "void loop() {\n", "  while (true) {\n",
        "    for (int frame = 0; frame < FRAME_COUNT; frame++) {\n",
        "      unsigned long start = millis();\n", "      \n",
        "      display.fillScreen(0x0000);\n",
        "      display.drawXBitmap(0, 0, (const uint8_t*)pgm_read_ptr(&frames[frame]), SCREEN_WIDTH, SCREEN_HEIGHT, 0xFFFF);\n",
        "      \n", "      while (millis() - start < FRAME_DELAY) {\n", "      }\n", "    }\n",
        "  }\n", "}" >>

\* databaseService.js, lines 653-684.  A null frame makes frameData.length throw.
VideoProcessor_generateArduinoCode(frames, width, height, f, library) ==
    LET lib        == IF library = "undefined" THEN "adafruit_gfx_ssd1306" ELSE library
        frameDelay == FrameDelay(f)
    IN  IF \E k \in DOMAIN frames : frames[k] = <<>>
        THEN Thrown(<<"TypeError: Cannot read properties of null (reading 'length')">>)
        ELSE LET framesC     == FramesC(frames)
                 framesIndex == FramesIndex(frames)
             IN  Returned(
                   IF lib = "u8g2"
                   THEN generateU8g2Code(framesC, framesIndex, width, height, frameDelay)
                   ELSE IF lib = "adafruit_gfx_ssd1331"
                   THEN generateSSD1331Code(framesC, framesIndex, width, height, frameDelay)
                   ELSE generateSSD1306Code(framesC, framesIndex, width, height, frameDelay))

(***************************************************************************)
(* SpecGen: the two generators, called twice on the same frames            *)
(***************************************************************************)
MaxGenFrames  == 3
MaxFrameBytes == 33

\* library arguments: the three supported values, an unknown string, undefined
Libraries == {"u8g2", "adafruit_gfx_ssd1331", "adafruit_gfx_ssd1306", "ssd1309", "undefined"}

\* frame rates: the documented examples, halves, fractions, and rates over 1000
GenFps == {<<5, 1>>, <<30, 1>>, <<2000, 1>>, <<12, 1>>, <<16, 1>>, <<3000, 1>>,
           <<20, 3>>, <<1, 2>>, <<2000, 3>>, <<400, 1>>}

\* the bytes of the frame at position k, len of them
BytesOf(k, len) == [j \in 1..len |-> (17 * (j - 1) + 10 * (k - 1) + 5) % 256]

\* sequences of at most n frames, each one null, empty or two bytes long
RECURSIVE FrameLists(_)
FrameLists(n) ==
    IF n = 0 THEN {<<>>}
    ELSE LET shorter == FrameLists(n - 1)
         IN  shorter \cup
             {Append(fs, fr) : fs \in {l \in shorter : Len(l) = n - 1},
                               fr \in {<<>>, <<(<<>>)>>, <<BytesOf(n, 2)>>}}

GenStart(frames, width, height, f) ==
    gen = [pc |-> "ready", framesPacked |-> frames, width |-> width, height |-> height,
           fps |-> f, run1 |-> <<>>, run2 |-> <<>>]

\* good and bad frames at every position
InitGenFrames == \E frames \in FrameLists(MaxGenFrames) : GenStart(frames, 128, 64, <<10, 1>>)

\* every frame length, next to a frame of one full line
InitGenLengths ==
    \E len \in 1..MaxFrameBytes :
        GenStart(<<(<<BytesOf(1, len)>>), (<<BytesOf(2, 16)>>)>>, 96, 64, <<10, 1>>)

\* every frame rate
InitGenFps == \E f \in GenFps : GenStart(<<(<<BytesOf(1, 1)>>)>>, 8, 1, f)

InitGen ==
    /\ pk = PkIdle
    /\ sketch = SketchIdle
    /\ server = ServerIdle
    /\ qz = QzIdle
    /\ PvIdle
    /\ page = PageIdle
    /\ InitGenFrames \/ InitGenLengths \/ InitGenFps

Run(generator, library, res) ==
    <<[generator |-> generator, library |-> library, result |-> res]>>

\* generateArduinoCode(framesPacked, width, height, fps, library) in the browser
GenerateArduinoCode1 ==
    /\ gen.pc = "ready" /\ gen.run1 = <<>>
    /\ \E library \in Libraries :
          gen' = [gen EXCEPT !.run1 = Run("browser", library,
                     generateArduinoCode(gen.framesPacked, gen.width, gen.height,
                                         gen.fps, library))]
    /\ UNCHANGED <<sketch, server, pk, qz, pvVars, page>>

GenerateArduinoCode2 ==
    /\ gen.pc = "ready" /\ gen.run2 = <<>>
    /\ \E library \in Libraries :
          gen' = [gen EXCEPT !.run2 = Run("browser", library,
                     generateArduinoCode(gen.framesPacked, gen.width, gen.height,
                                         gen.fps, library))]
    /\ UNCHANGED <<sketch, server, pk, qz, pvVars, page>>

\* videoProcessor.generateArduinoCode(framesPacked, width, height, fps, library)
VideoProcessorGenerate1 ==
    /\ gen.pc = "ready" /\ gen.run1 = <<>>
    /\ \E library \in Libraries :
          gen' = [gen EXCEPT !.run1 = Run("backend", library,
                     VideoProcessor_generateArduinoCode(gen.framesPacked, gen.width,
                                                        gen.height, gen.fps, library))]
    /\ UNCHANGED <<sketch, server, pk, qz, pvVars, page>>

VideoProcessorGenerate2 ==
    /\ gen.pc = "ready" /\ gen.run2 = <<>>
    /\ \E library \in Libraries :
          gen' = [gen EXCEPT !.run2 = Run("backend", library,
                     VideoProcessor_generateArduinoCode(gen.framesPacked, gen.width,
                                                        gen.height, gen.fps, library))]
    /\ UNCHANGED <<sketch, server, pk, qz, pvVars, page>>

NextGen ==
    \/ GenerateArduinoCode1
    \/ GenerateArduinoCode2
    \/ VideoProcessorGenerate1
    \/ VideoProcessorGenerate2

SpecGen == InitGen /\ [][NextGen]_vars

\* the calls made so far in the generator scenario
GenRuns == IF gen.pc = "ready" THEN {r[1] : r \in {gen.run1, gen.run2} \ {<<>>}} ELSE {}

\* framesPacked is empty, or one of its frames is null or empty
BadFrames(frames) ==
    \/ Len(frames) = 0
    \/ \E k \in DOMAIN frames : frames[k] = <<>> \/ Len(frames[k][1]) = 0

\* C14: generator input contract.  A call with an empty framesPacked, or with a
\* null or empty frame at any position, ends in an error and returns no text,
\* for either generator and every library.
C14_GeneratorRejectsBadFrames ==
    \A r \in GenRuns :
        BadFrames(gen.framesPacked) => (r.result.kind = "error" /\ r.result.text = <<>>)

\* position of the first piece of text equal to piece, 0 if there is none
IndexOf(text, piece) ==
    IF \E p \in DOMAIN text : text[p] = piece
    THEN CHOOSE p \in DOMAIN text : text[p] = piece /\ \A q \in 1..(p - 1) : text[q] # piece
    ELSE 0

\* number of pieces of text equal to piece
Count(text, piece) == Cardinality({p \in DOMAIN text : text[p] = piece})

DecimalDigits == {"0", "1", "2", "3", "4", "5", "6", "7", "8", "9"}

DigitValue(c) ==
    CASE c = "0" -> 0 [] c = "1" -> 1 [] c = "2" -> 2 [] c = "3" -> 3 [] c = "4" -> 4
      [] c = "5" -> 5 [] c = "6" -> 6 [] c = "7" -> 7 [] c = "8" -> 8 [] c = "9" -> 9

\* a decimal numeral: digits only, at least one, no leading zero unless it is "0"
IsNumeral(str) ==
    /\ Len(str) >= 1
    /\ \A j \in DOMAIN str : str[j] \in DecimalDigits
    /\ Len(str) > 1 => str[1] # "0"

\* the value of a decimal numeral
RECURSIVE ParseDecimal(_)
ParseDecimal(str) ==
    IF Len(str) = 0 THEN 0
    ELSE 10 * ParseDecimal(SubSeq(str, 1, Len(str) - 1)) + DigitValue(str[Len(str)])

\* the pieces between `const int FRAME_DELAY = ` and the `;` that ends the line
FrameDelayText(text) ==
    LET p == IndexOf(text, "const int FRAME_DELAY = ")
        q == CHOOSE q \in (p + 1)..Len(text) :
                 text[q] = ";\n" /\ \A m \in (p + 1)..(q - 1) : text[m] # ";\n"
    IN  SubSeq(text, p + 1, q - 1)

\* d = max(1, round(1000 / (f[1] / f[2]))), halves rounded up
IsFrameDelay(d, f) ==
    /\ d >= 1
    /\ IF 2 * 1000 * f[2] < 3 * f[1]
       THEN d = 1
       ELSE (2 * d - 1) * f[1] <= 2 * 1000 * f[2] /\ 2 * 1000 * f[2] < (2 * d + 1) * f[1]

\* C15: frame delay.  Every generated program defines FRAME_DELAY once, as the
\* decimal numeral of max(1, round(1000/fps)): at least 1, 200 for fps 5, 33 for
\* fps 30, 1 for fps 2000; two programs generated for the same fps carry the same
\* delay whatever their libraries.
C15_FrameDelay ==
    /\ \A r \in GenRuns :
          r.result.kind = "text" =>
              /\ Count(r.result.text, "const int FRAME_DELAY = ") = 1
              /\ IsNumeral(FrameDelayText(r.result.text))
              /\ LET d == ParseDecimal(FrameDelayText(r.result.text))
                 IN  /\ IsFrameDelay(d, gen.fps)
                     /\ gen.fps = <<5, 1>> => d = 200
                     /\ gen.fps = <<30, 1>> => d = 33
                     /\ gen.fps = <<2000, 1>> => d = 1
    /\ \A r1, r2 \in GenRuns :
          (r1.result.kind = "text" /\ r2.result.kind = "text") =>
              FrameDelayText(r1.result.text) = FrameDelayText(r2.result.text)

\* fps 30 generated for U8g2 in the browser and for SSD1331 on the backend
C15_Witness ==
    /\ gen.pc = "ready" /\ gen.fps = <<30, 1>>
    /\ gen.run1 # <<>> /\ gen.run2 # <<>>
    /\ gen.run1[1].generator = "browser" /\ gen.run1[1].library = "u8g2"
    /\ gen.run2[1].generator = "backend" /\ gen.run2[1].library = "adafruit_gfx_ssd1331"
    /\ FrameDelayText(gen.run1[1].result.text) = <<"3", "3">>
    /\ FrameDelayText(gen.run2[1].result.text) = <<"3", "3">>

\* positions of the array declarations in a text, in text order
ArrayStarts(text) ==
    SelectSeq([p \in DOMAIN text |-> p], LAMBDA p : text[p] = "const uint8_t PROGMEM frame_")

\* the k-th array of a text: from its declaration to the `};` that closes it
ArrayText(text, k) ==
    LET p == ArrayStarts(text)[k]
        q == CHOOSE q \in p..Len(text) :
                 text[q] = "};" /\ \A m \in p..(q - 1) : text[m] # "};"
    IN  SubSeq(text, p, q)

\* 0x and the two upper-case hex digits of a byte
Hex2(b) ==
    LET digits == <<"0", "1", "2", "3", "4", "5", "6", "7", "8", "9",
                    "A", "B", "C", "D", "E", "F">>
    IN  <<"0", "x", digits[(b \div 16) + 1], digits[(b % 16) + 1]>>

\* the values j..n of a frame as the claim lays them out: two blanks open a line,
\* a comma follows every value but the last, and every 16th value ends its line
RECURSIVE ExpectedValues(_, _)
ExpectedValues(bytes, j) ==
    IF j > Len(bytes) THEN <<>>
    ELSE (IF (j - 1) % 16 = 0 THEN <<" ", " ">> ELSE <<>>)
         \o Hex2(bytes[j])
         \o (IF j = Len(bytes) THEN <<>>
             ELSE IF j % 16 = 0 THEN <<",", "\n">> ELSE <<",", " ">>)
         \o ExpectedValues(bytes, j + 1)

\* the array a is the declaration of frame_<idx> with the given bytes
IsArrayOf(a, idx, bytes) ==
    LET open  == IndexOf(a, "[")
        close == IndexOf(a, "] = {")
    IN  /\ a[1] = "const uint8_t PROGMEM frame_"
        /\ open > 2 /\ close > open + 1
        /\ IsNumeral(SubSeq(a, 2, open - 1))
        /\ ParseDecimal(SubSeq(a, 2, open - 1)) = idx
        /\ IsNumeral(SubSeq(a, open + 1, close - 1))
        /\ ParseDecimal(SubSeq(a, open + 1, close - 1)) = Len(bytes)
        /\ SubSeq(a, close + 1, Len(a)) =
               <<"\n">> \o ExpectedValues(bytes, 1) \o <<"\n", "};">>

\* C16: array literal rendering.  In every generated program the k-th array is
\* frame_<k-1>, declared with the length n of the k-th frame and holding its n
\* bytes in order as 0x and two upper-case hex digits, 16 to a line, with a comma
\* after every value except the last of the frame.
C16_ArrayLiterals ==
    \A r \in GenRuns :
        r.result.kind = "text" =>
            \A k \in DOMAIN gen.framesPacked :
                /\ k <= Len(ArrayStarts(r.result.text))
                /\ IsArrayOf(ArrayText(r.result.text, k), k - 1, gen.framesPacked[k][1])

\* a frame of 32 bytes: two full lines, 31 commas, none after the last value
C16_Witness ==
    /\ gen.pc = "ready" /\ gen.run1 # <<>>
    /\ gen.run1[1].generator = "browser" /\ gen.run1[1].result.kind = "text"
    /\ Len(gen.framesPacked[1][1]) = 32
    /\ LET a == ArrayText(gen.run1[1].result.text, 1)
       IN  /\ Count(a, "x") = 32
           /\ Count(a, ",") = 31
           /\ Count(a, "\n") = 3
           /\ SubSeq(a, Len(a) - 5, Len(a)) = <<"0", "x", "1", "4", "\n", "};">>

\* the index array of a text: from its declaration to the `};` that closes it
IndexText(text) ==
    LET p == IndexOf(text, "const uint8_t* const frames[] PROGMEM = {")
        q == CHOOSE q \in p..Len(text) :
                 text[q] = "};" /\ \A m \in p..(q - 1) : text[m] # "};"
    IN  SubSeq(text, p, q)

\* positions of the names listed in an index array, in text order
IndexEntries(ix) == SelectSeq([p \in DOMAIN ix |-> p], LAMBDA p : ix[p] = "frame_")

\* the digits that follow the name at position p of an index array
EntryNumber(ix, p) ==
    LET e == CHOOSE e \in (p + 1)..Len(ix) :
                 ix[e] \notin DecimalDigits /\ \A m \in (p + 1)..(e - 1) : ix[m] \in DecimalDigits
    IN  SubSeq(ix, p + 1, e - 1)

\* the digits that follow the declaration at position p of a text
ArrayNumber(text, p) == SubSeq(text, p + 1, IndexOf(SubSeq(text, p, Len(text)), "[") + p - 2)

\* C17: frame-count consistency.  A program generated from n >= 1 frames declares
\* exactly n arrays, named frame_0 .. frame_(n-1) in that order; its index array
\* follows them and lists exactly those n names in the same order, separated by
\* commas; and FRAME_COUNT is defined once, as sizeof(frames) / sizeof(frames[0]),
\* so the count of the compiled program is the n entries of the index array.
C17_FrameCount ==
    \A r \in GenRuns :
        (r.result.kind = "text" /\ Len(gen.framesPacked) >= 1) =>
            LET text   == r.result.text
                n      == Len(gen.framesPacked)
                starts == ArrayStarts(text)
                ix     == IndexText(text)
                names  == IndexEntries(ix)
            IN  /\ Len(starts) = n
                /\ \A k \in 1..n :
                      /\ IsNumeral(ArrayNumber(text, starts[k]))
                      /\ ParseDecimal(ArrayNumber(text, starts[k])) = k - 1
                /\ Count(text, "const uint8_t* const frames[] PROGMEM = {") = 1
                /\ starts[n] < IndexOf(text, "const uint8_t* const frames[] PROGMEM = {")
                /\ Len(names) = n
                /\ \A k \in 1..n :
                      /\ IsNumeral(EntryNumber(ix, names[k]))
                      /\ ParseDecimal(EntryNumber(ix, names[k])) = k - 1
                /\ Count(ix, ",") = n - 1
                /\ Count(text, "const int FRAME_COUNT = sizeof(frames) / sizeof(frames[0]);\n") = 1

\* three frames: frame_0, frame_1, frame_2 and an index array of three names
C17_Witness ==
    /\ gen.pc = "ready" /\ Len(gen.framesPacked) = 3
    /\ gen.run2 # <<>> /\ gen.run2[1].result.kind = "text"
    /\ gen.run2[1].generator = "browser"
    /\ Len(ArrayStarts(gen.run2[1].result.text)) = 3
    /\ LET ix == IndexText(gen.run2[1].result.text)
       IN  /\ Len(IndexEntries(ix)) = 3
           /\ EntryNumber(ix, IndexEntries(ix)[3]) = <<"2">>

\* where the frame data of a text starts (its first array, or its index array
\* when it has no array) and where it ends (the `};` of the index array)
DataStart(text) ==
    IF Len(ArrayStarts(text)) > 0 THEN ArrayStarts(text)[1]
    ELSE IndexOf(text, "const uint8_t* const frames[] PROGMEM = {")
DataEnd(text) ==
    IndexOf(text, "const uint8_t* const frames[] PROGMEM = {") + Len(IndexText(text)) - 1

\* the frame arrays and the index array of a text
DataSection(text) == SubSeq(text, DataStart(text), DataEnd(text))

\* the text before the frame data (includes, defines, display object) and after
\* it (delay, setup, loop with the blit call)
Preamble(text) == SubSeq(text, 1, DataStart(text) - 1)
Postamble(text) == SubSeq(text, DataEnd(text) + 1, Len(text))

Supported == {"u8g2", "adafruit_gfx_ssd1331", "adafruit_gfx_ssd1306"}

\* C18: library independence of frame data.  Two programs generated by the same
\* generator from the same frames, size and fps for two supported libraries have
\* the same frame arrays and index array, piece for piece; when the libraries
\* differ, so do the text before the frame data and the text after it.
C18_LibraryIndependence ==
    \A r1, r2 \in GenRuns :
        (/\ r1.generator = r2.generator
         /\ r1.library \in Supported /\ r2.library \in Supported
         /\ r1.result.kind = "text" /\ r2.result.kind = "text") =>
            /\ DataSection(r1.result.text) = DataSection(r2.result.text)
            /\ r1.library # r2.library =>
                  /\ Preamble(r1.result.text) # Preamble(r2.result.text)
                  /\ Postamble(r1.result.text) # Postamble(r2.result.text)

\* the same two frames generated for U8g2 and for SSD1306 in the browser
C18_Witness ==
    /\ gen.pc = "ready" /\ Len(gen.framesPacked) = 2
    /\ gen.run1 # <<>> /\ gen.run2 # <<>>
    /\ gen.run1[1].generator = "browser" /\ gen.run1[1].library = "u8g2"
    /\ gen.run2[1].generator = "browser" /\ gen.run2[1].library = "adafruit_gfx_ssd1306"
    /\ gen.run1[1].result.kind = "text" /\ gen.run2[1].result.kind = "text"
    /\ Len(DataSection(gen.run1[1].result.text)) > 100
    /\ gen.run1[1].result.text # gen.run2[1].result.text

\* C19: library fallback.  For a library argument other than 'u8g2' and
\* 'adafruit_gfx_ssd1331' - an unknown string or undefined - a generator returns
\* exactly what it returns for 'adafruit_gfx_ssd1306' on the same frames, size
\* and fps.
C19_LibraryFallback ==
    \A r1, r2 \in GenRuns :
        (/\ r1.generator = r2.generator
         /\ r1.library \notin {"u8g2", "adafruit_gfx_ssd1331"}
         /\ r2.library = "adafruit_gfx_ssd1306") =>
            r1.result = r2.result

\* an unknown library string and 'adafruit_gfx_ssd1306' gave the same program
C19_Witness ==
    /\ gen.pc = "ready"
    /\ gen.run1 # <<>> /\ gen.run2 # <<>>
    /\ gen.run1[1].generator = "browser" /\ gen.run1[1].library = "ssd1309"
    /\ gen.run2[1].generator = "browser" /\ gen.run2[1].library = "adafruit_gfx_ssd1306"
    /\ gen.run1[1].result.kind = "text"
    /\ gen.run1[1].result.text = gen.run2[1].result.text
    /\ Count(gen.run1[1].result.text, "#include <Adafruit_SSD1306.h>\n") = 1

(***************************************************************************)
(* SpecPage: the Index page with a video selected.  A processVideo call is *)
(* abstracted to its options and, once it resolves, to the count, size and *)
(* rate of its frames; generated code to the arguments it was built from.  *)
(***************************************************************************)
MAX_FRAMES == 300

\* number of user gestures in a run, and the length of the selected video in ticks
MaxChanges == 3
PageVideoTicks == 4

DisplaySizes == {"128x64", "96x64", "custom"}
PageLibraries == {"adafruit_gfx_ssd1306", "u8g2"}
SliderValues == {10, 25}

\* parseSize, lines 45-49
parseSize(size) ==
    CASE size = "128x64" -> [w |-> 128, h |-> 64]
      [] size = "96x64"  -> [w |-> 96, h |-> 64]
      [] OTHER           -> [w |-> 128, h |-> 64]

\* the options processVideoDebounced passes to processVideo, lines 79-87
OptionsOf(config) ==
    [width |-> parseSize(config.displaySize).w, height |-> parseSize(config.displaySize).h,
     orientation |-> config.orientation, targetFps |-> 30, maxFrames |-> MAX_FRAMES,
     targetFrames |-> Min(IF config.targetFrames = 0 THEN 20 ELSE config.targetFrames, 20),
     threshold |-> 128]

\* what processVideo resolves to for these options when every seek succeeds
ResultOf(o) ==
    LET d  == CapDuration(PageVideoTicks)
        tf == ClampFps(o.targetFps)
        td == TotalDesired(o, d, tf)
        f  == EffectiveFps(td, d, tf)
    IN  [frames |-> Len(Timestamps(d, f, td)), width |-> CanvasWidth(o),
         height |-> CanvasHeight(o), fps |-> f, duration |-> d]

\* the arguments a generated program was built from
CodeOf(res, library) ==
    [frames |-> res.frames, width |-> res.width, height |-> res.height,
     frameDelay |-> FrameDelay(res.fps),
     library |-> IF library \in {"u8g2", "adafruit_gfx_ssd1331"} THEN library
                 ELSE "adafruit_gfx_ssd1306"]

\* the regeneration effect, lines 181-221: its cleanup clears the pending timer,
\* then regenerateCodeDebounced arms a new one unless there are no frames or the
\* page is processing
RegenerateEffect(pg) ==
    IF pg.preview = <<>> \/ pg.isProcessing
    THEN [pg EXCEPT !.codeGenerationTimeout = <<>>]
    ELSE [pg EXCEPT !.isRegenerating = TRUE,
                    !.codeGenerationTimeout = <<[res |-> pg.preview[1],
                                                 library |-> pg.config.library]>>]

\* a call that does not look at isProcessingRef
StartProcessingUnguarded(pg, config) ==
    RegenerateEffect([pg EXCEPT !.isProcessingRef = TRUE, !.isProcessing = TRUE,
                                !.inFlight = Append(@, config),
                                !.started = @ + 1])

\* processVideoDebounced up to its first await, lines 64-87: a call made while
\* another one is running returns at once
StartProcessing(pg, config) ==
    IF pg.isProcessingRef
    THEN pg
    ELSE RegenerateEffect([pg EXCEPT !.isProcessingRef = TRUE, !.isProcessing = TRUE,
                                     !.inFlight = Append(@, config),
                                     !.started = @ + 1])

Configs ==
    [displaySize : DisplaySizes, orientation : {"horizontal", "vertical"},
     library : PageLibraries, targetFrames : {20}]

\* a video has just been selected: the processing effect has armed its timer
InitPage ==
    /\ pk = PkIdle
    /\ sketch = SketchIdle
    /\ server = ServerIdle
    /\ qz = QzIdle
    /\ PvIdle
    /\ gen = GenIdle
    /\ \E config \in Configs :
          page = [pc |-> "mounted", selectedVideo |-> TRUE, config |-> config,
                  processingTimeout |-> <<config>>,
                  isProcessingRef |-> FALSE, isProcessing |-> FALSE, inFlight |-> <<>>,
                  preview |-> <<>>, generatedCode |-> <<>>,
                  codeGenerationTimeout |-> <<>>, isRegenerating |-> FALSE,
                  changes |-> 0, started |-> 0, rejected |-> 0]

\* the configurations one change of the panel away from config (updateConfig)
NewConfigs(config) ==
    ({[config EXCEPT !.displaySize = v] : v \in DisplaySizes}
     \cup {[config EXCEPT !.orientation = v] : v \in {"horizontal", "vertical"}}
     \cup {[config EXCEPT !.library = v] : v \in PageLibraries}
     \cup {[config EXCEPT !.targetFrames = v] : v \in SliderValues}) \ {config}

\* the processing effect with no video selected, lines 142-148: the frames are
\* set to new empty arrays, which makes the regeneration effect run again
NoVideoEffect(pg) ==
    RegenerateEffect([pg EXCEPT !.preview = <<>>, !.generatedCode = <<>>,
                                !.processingTimeout = <<>>])

\* handleConfigChange, lines 276-280, and the effects the new config triggers:
\* the processing effect clears its timer and arms a new one (lines 150-158), the
\* regeneration effect runs again when the library changed
HandleConfigChange ==
    /\ page.pc = "mounted" /\ page.changes < MaxChanges
    /\ \E newConfig \in NewConfigs(page.config) :
          LET pg == [page EXCEPT !.config = newConfig, !.generatedCode = <<>>,
                                 !.processingTimeout = <<newConfig>>,
                                 !.changes = @ + 1]
          IN  page' = IF ~page.selectedVideo THEN NoVideoEffect(pg)
                      ELSE IF newConfig.library # page.config.library
                      THEN RegenerateEffect(pg) ELSE pg
    /\ UNCHANGED <<sketch, server, pk, qz, pvVars, gen>>

\* handleFrameCountChange(config.targetFrames || 20), lines 282-301: the Apply
\* button.  It clears the timer, calls processVideoDebounced at once, and the new
\* config object makes the processing effect arm its timer again.
HandleFrameCountChange ==
    /\ page.pc = "mounted" /\ page.changes < MaxChanges
    /\ page.selectedVideo            \* if (!selectedVideo) { toast(...); return; }
    /\ LET targetFrames == IF page.config.targetFrames = 0 THEN 20
                           ELSE page.config.targetFrames
           newConfig    == [page.config EXCEPT !.targetFrames = Min(targetFrames, 20)]
           cleared      == [page EXCEPT !.config = newConfig, !.generatedCode = <<>>,
                                        !.processingTimeout = <<>>, !.changes = @ + 1]
           called       == StartProcessing(cleared, newConfig)
       IN  page' = [called EXCEPT !.processingTimeout = <<newConfig>>]
    /\ UNCHANGED <<sketch, server, pk, qz, pvVars, gen>>

\* the 300 ms timer of the processing effect fires, lines 156-158
ProcessingTimeout ==
    /\ page.pc = "mounted" /\ page.processingTimeout # <<>>
    /\ page' = StartProcessing([page EXCEPT !.processingTimeout = <<>>],
                               page.processingTimeout[1])
    /\ UNCHANGED <<sketch, server, pk, qz, pvVars, gen>>

\* processVideo resolves inside processVideoDebounced, lines 88-137: the result
\* and the code generated for the library of the call's own config are stored,
\* the flags are cleared, and the regeneration effect runs on the new frames
ProcessVideoResolved ==
    /\ page.pc = "mounted" /\ page.inFlight # <<>>
    /\ LET config == Head(page.inFlight)
           res    == ResultOf(OptionsOf(config))
       IN  page' = RegenerateEffect(
                     [page EXCEPT !.preview = <<res>>,
                                  !.generatedCode = IF res.frames > 0
                                                    THEN <<CodeOf(res, config.library)>>
                                                    ELSE @,
                                  !.isProcessing = FALSE, !.isProcessingRef = FALSE,
                                  !.inFlight = Tail(@)])
    /\ UNCHANGED <<sketch, server, pk, qz, pvVars, gen>>

\* processVideo rejects inside processVideoDebounced, lines 131-137: the catch
\* shows a toast, the finally clears the flags, and the regeneration effect runs
\* because isProcessing changed
ProcessVideoRejected ==
    /\ page.pc = "mounted" /\ page.inFlight # <<>>
    /\ page' = RegenerateEffect(
                  [page EXCEPT !.isProcessing = FALSE, !.isProcessingRef = FALSE,
                               !.inFlight = Tail(@), !.rejected = @ + 1])
    /\ UNCHANGED <<sketch, server, pk, qz, pvVars, gen>>

\* handleVideoSelect(file), lines 51-61, and the processing effect it triggers
\* (lines 141-166): with a file the effect arms its timer, with null it empties
\* the frames
HandleVideoSelect ==
    /\ page.pc = "mounted" /\ page.changes < MaxChanges
    /\ \E file \in BOOLEAN :
          LET pg == [page EXCEPT !.selectedVideo = file, !.generatedCode = <<>>,
                                 !.changes = @ + 1]
          IN  page' = IF file THEN [pg EXCEPT !.processingTimeout = <<page.config>>]
                      ELSE NoVideoEffect(pg)
    /\ UNCHANGED <<sketch, server, pk, qz, pvVars, gen>>

\* the 150 ms timer of regenerateCodeDebounced fires, lines 193-213
CodeGenerationTimeout ==
    /\ page.pc = "mounted" /\ page.codeGenerationTimeout # <<>>
    /\ LET t == page.codeGenerationTimeout[1]
       IN  page' = [page EXCEPT !.generatedCode = <<CodeOf(t.res, t.library)>>,
                                !.isRegenerating = FALSE,
                                !.codeGenerationTimeout = <<>>]
    /\ UNCHANGED <<sketch, server, pk, qz, pvVars, gen>>

NextPage ==
    \/ HandleConfigChange
    \/ HandleFrameCountChange
    \/ ProcessingTimeout
    \/ ProcessVideoResolved
    \/ ProcessVideoRejected
    \/ HandleVideoSelect
    \/ CodeGenerationTimeout

SpecPage == InitPage /\ [][NextPage]_vars

\* The page under the browser's event loop: a timer that stays armed fires, and a
\* processVideo call that is running settles, one way or the other.  Nothing is
\* assumed about what the user does.
SpecPageLive ==
    /\ SpecPage
    /\ WF_vars(ProcessingTimeout)
    /\ WF_vars(CodeGenerationTimeout)
    /\ WF_vars(ProcessVideoRejected \/ ProcessVideoResolved)

\* no timer is armed and no processVideo call is running
Quiescent ==
    /\ page.processingTimeout = <<>>
    /\ page.inFlight = <<>>
    /\ page.codeGenerationTimeout = <<>>

\* C20: newer request supersedes.  Once every timer has fired and every
\* processVideo call has resolved, the preview state of the selected video (frames,
\* width, height, fps) is the result of processing the video with the current
\* configuration, and the generated code is built from that result for the current
\* library.
C20_NewestConfigWins ==
    (page.pc = "mounted" /\ Quiescent /\ page.selectedVideo /\ page.rejected = 0) =>
        /\ page.preview = <<ResultOf(OptionsOf(page.config))>>
        /\ page.generatedCode =
              <<CodeOf(ResultOf(OptionsOf(page.config)), page.config.library)>>


\* a text without the newline that ends its last line
Chomp(text) ==
    IF Len(text) > 0 /\ text[Len(text)] = "}\n"
    THEN [text EXCEPT ![Len(text)] = "}"]
    ELSE text

\* a browser call and a backend call on the same frames with the same library
SameCallPairs ==
    {pair \in GenRuns \X GenRuns :
        /\ pair[1].generator = "browser" /\ pair[2].generator = "backend"
        /\ pair[1].library = pair[2].library}

\* C27: browser and backend generators agree.  For non-empty frames and any
\* library, the program the browser generator returns and the program the backend
\* generator returns are the same text, piece for piece, up to the final newline.
C27_GeneratorsAgree ==
    ~BadFrames(gen.framesPacked) =>
        \A pair \in SameCallPairs :
            /\ pair[1].result.kind = "text"
            /\ pair[2].result.kind = "text"
            /\ Chomp(pair[1].result.text) = Chomp(pair[2].result.text)

\* the same for the U8g2 and SSD1331 programs; the programs of the SSD1306
\* template (chosen by name or by default) have the same pieces except one
C27_AgreeButForOneStatement ==
    ~BadFrames(gen.framesPacked) =>
        \A pair \in SameCallPairs :
            LET b == Chomp(pair[1].result.text)
                k == Chomp(pair[2].result.text)
            IN  /\ pair[1].result.kind = "text" /\ pair[2].result.kind = "text"
                /\ Len(b) = Len(k)
                /\ pair[1].library \in {"u8g2", "adafruit_gfx_ssd1331"} => b = k
                /\ Cardinality({p \in DOMAIN b : b[p] # k[p]}) <= 1

\* C28: single in-flight processing in the page.  Under any interleaving of video
\* selection and removal, configuration changes, Apply clicks and timer firings, at
\* most one processVideo call started by the page is running, and isProcessingRef
\* is set exactly while one is: when a call has settled, by resolving or by
\* rejecting, the guard is clear and the next request starts a call.
C28_SingleInFlight ==
    page.pc = "mounted" =>
        /\ Len(page.inFlight) <= 1
        /\ page.isProcessingRef <=> Len(page.inFlight) = 1
        /\ page.isProcessing = page.isProcessingRef

\* a call that was started after an earlier one had been rejected, with a timer
\* armed behind it
C28_Witness ==
    /\ page.pc = "mounted"
    /\ page.rejected = 1 /\ page.started = 2
    /\ Len(page.inFlight) = 1
    /\ page.processingTimeout # <<>>

\* C30: the regeneration indicator clears.  Whenever isRegenerating is true it is
\* eventually false again, whatever library changes, frame updates, processing
\* starts and ends and video removals happen before the 150 ms timer fires.
C30_IndicatorClears ==
    (page.pc = "mounted" /\ page.isRegenerating) ~> (page.pc = "mounted" /\ ~page.isRegenerating)

(***************************************************************************)
(* The extraction loop of processVideo, read off its log                   *)
(***************************************************************************)
\* the timestamp positions whose frames were pushed, in the order of the pushes
RECURSIVE PushedIn(_)
PushedIn(events) ==
    IF Len(events) = 0 THEN <<>>
    ELSE IF Head(events)[1] = "push" THEN <<Head(events)[2]>> \o PushedIn(Tail(events))
    ELSE PushedIn(Tail(events))
Pushed == PushedIn(log)

\* C22: strict per-frame serialization.  Within one call, frame k is drawn only
\* when the seek to timestamps[k] has been issued and has ended, and is pushed right
\* after it was drawn; the seek to timestamps[k+1] is issued only when frame k has
\* been pushed or skipped; a seek that was issued ends or throws before anything
\* else happens in the call, so two seeks are never outstanding, and one is
\* outstanding only while the call waits for 'seeked'; the frames are pushed in
\* timestamp order, one output per push.
C22_Serialized ==
    pc # "off" =>
        /\ \A p \in DOMAIN log :
              /\ log[p][1] = "draw" =>
                    /\ p > 2
                    /\ log[p - 2][1] = "seek" /\ log[p - 2][2] = log[p][2]
                    /\ log[p - 1][1] = "seeked" /\ log[p - 1][2] = log[p][2]
              /\ log[p][1] = "push" =>
                    log[p - 1][1] = "draw" /\ log[p - 1][2] = log[p][2]
              /\ (log[p][1] = "seek" /\ log[p][2] > 1) =>
                    /\ log[p - 1][1] \in {"push", "skip"}
                    /\ log[p - 1][2] = log[p][2] - 1
              /\ (log[p][1] = "seek" /\ p < Len(log)) =>
                    log[p + 1][1] \in {"seeked", "threw"} /\ log[p + 1][2] = log[p][2]
              /\ log[p][1] \in {"seeked", "threw"} => log[p - 1][1] = "seek"
        /\ pc = "await_seeked" <=> (Len(log) > 0 /\ log[Len(log)][1] = "seek")
        /\ LET kept == Pushed
           IN  /\ \A j \in DOMAIN kept : j > 1 => kept[j - 1] < kept[j]
               /\ Len(framesMono) = Len(kept) /\ Len(framesPacked) = Len(kept)
               /\ result.kind = "resolved" =>
                     Len(result.framesMono) = Len(kept)

\* a call of three timestamps: the second draw failed, the others were pushed
C22_Witness ==
    /\ pc = "settled"
    /\ Pushed = <<1, 3>>
    /\ DrawFailedAt(2)
    /\ Len(result.framesMono) = 2
    /\ FrameAt(1) # FrameAt(3)

\* C23: orientation and result shape.  A ProcessResult has width = opts.width and
\* height = opts.height in horizontal orientation, width = opts.height and
\* height = opts.width in vertical orientation; each of its MonoFrames has
\* width * height entries and each PackedFrame ceil(width / 8) * height bytes.
C23_ResultShape ==
    result.kind = "resolved" =>
        /\ opts.orientation = "horizontal" =>
              result.width = opts.width /\ result.height = opts.height
        /\ opts.orientation = "vertical" =>
              result.width = opts.height /\ result.height = opts.width
        /\ \A k \in DOMAIN result.framesMono :
              Len(result.framesMono[k]) = result.width * result.height
        /\ \A k \in DOMAIN result.framesPacked :
              Len(result.framesPacked[k]) = CeilDiv(result.width, 8) * result.height

\* a 9 x 2 display held upright: frames of 2 x 9 pixels, one byte per row
C23_Witness ==
    /\ result.kind = "resolved"
    /\ opts.orientation = "vertical" /\ opts.width = 9 /\ opts.height = 2
    /\ result.width = 2 /\ result.height = 9
    /\ Len(result.framesMono) = 3 /\ Len(result.framesMono[3]) = 18
    /\ Len(result.framesPacked[3]) = 9

\* the cause processVideo fails with, "" when it has none
FailureCause ==
    IF video.duration <= 0 THEN "Invalid video duration"
    ELSE IF CanvasWidth(opts) <= 0 \/ CanvasHeight(opts) <= 0 THEN "Invalid display dimensions"
    ELSE IF ~ctx.available THEN "Canvas context not available"
    ELSE IF Len(framesMono) = 0 THEN "No frames could be extracted from video"
    ELSE ""

\* C24: explicit failure only.  A call that has settled was either rejected, with
\* the message 'Failed to process video: ' followed by the cause (invalid duration,
\* invalid dimensions, no drawing context, no frame extracted, in that order of
\* precedence), or resolved with at least one frame; it is rejected exactly when
\* one of these causes applies, and it settles once.
C24_ExplicitFailure ==
    pc = "settled" =>
        /\ result.kind \in {"resolved", "rejected"}
        /\ revocations = 1
        /\ result.kind = "rejected" <=> FailureCause # ""
        /\ result.kind = "rejected" =>
              result.message = <<"Failed to process video: ", FailureCause>>
        /\ result.kind = "resolved" =>
              Len(result.framesMono) >= 1 /\ Len(result.framesPacked) >= 1

\* a display of valid size on a page that has no 2d context
C24_Witness ==
    /\ pc = "settled"
    /\ opts.width = 2 /\ opts.orientation = "vertical" /\ video.duration > 0
    /\ result = Rejected("Canvas context not available")

\* C25: a skipped frame leaves the drawing surface unchanged.  Whenever an
\* iteration of the extraction loop begins, the context has the identity transform
\* and an empty save() stack, and the frames of a result are the pictures of their
\* timestamps as a fresh context draws them, whatever frames failed before them.
C25_SkipLeavesContextClean ==
    /\ pc = "await_seeked" => (ctx.saved = 0 /\ ctx.turns = 0)
    /\ result.kind = "resolved" =>
          \A j \in DOMAIN Pushed :
              result.framesMono[j] =
                  grayscaleAndThreshold(CanvasData(Pushed[j] - 1, 0), Threshold(opts))

\* the same for frames that fail at the seek, before save() is reached
C25_SeekFailuresLeaveContextClean ==
    (\A j \in 1..Len(timestamps) : ~DrawFailedAt(j)) => C25_SkipLeavesContextClean

\* C26: bounded frame delay.  The fps of a ProcessResult lies between 1/30 and 30,
\* and the FRAME_DELAY generate computes from it lies between 33 and 30000, which
\* is within the 16-bit int (at most 32767) the program declares it as.
C26_BoundedFrameDelay ==
    result.kind = "resolved" =>
        /\ result.fps[1] > 0 /\ result.fps[2] > 0
        /\ 30 * result.fps[1] >= result.fps[2]
        /\ result.fps[1] <= 30 * result.fps[2]
        /\ FrameDelay(result.fps) \in 33..30000
        /\ FrameDelay(result.fps) <= 32767

\* one frame of a clip of 30 s or more: 1/30 fps and a delay of 30000 ms
C26_Witness ==
    /\ result.kind = "resolved"
    /\ video.duration > 30 * DurDen
    /\ REq(result.fps, <<1, 30>>)
    /\ FrameDelay(result.fps) = 30000

\* a dense sampling at the clamped rate: 30 fps and a delay of 33 ms
C26_FastestRate ==
    /\ result.kind = "resolved"
    /\ opts.targetFps = 31
    /\ REq(result.fps, <<30, 1>>)
    /\ FrameDelay(result.fps) = 33

(***************************************************************************)
(* SpecSketch: a generated program, compiled and running on the board.     *)
(* The program is read back from the emitted text: its frame count from    *)
(* the index array, its delay from the FRAME_DELAY line, its statements    *)
(* from the body of the for loop.  unsigned long is 32 bits wide and is    *)
(* kept as <<high, low>> halves of 16 bits; millis() wraps.  The delays of *)
(* this scenario fit the 16-bit int FRAME_DELAY is declared as.            *)
(***************************************************************************)
MaxSketchFrames == 3
MaxShown        == 7

\* frame rates of the programs, the value of millis() when loop() is entered (just
\* booted, and 350 ms before the clock wraps), the time one draw takes, and the
\* time that passes between two readings of millis() in the waiting loop
SketchFps  == {<<30, 1>>, <<12, 1>>}
BootMillis == {<<0, 0>>, <<65535, 65186>>}
DrawMillis == {3, 50}
LoopMillis == {10}

\* unsigned long arithmetic, modulo 2^32
ToUnsignedLong(n) == <<(n \div 65536) % 65536, n % 65536>>

Add32(a, d) == <<(a[1] + (a[2] + d) \div 65536) % 65536, (a[2] + d) % 65536>>

Sub32(a, b) ==
    <<(a[1] - b[1] - (IF a[2] < b[2] THEN 1 ELSE 0)) % 65536, (a[2] - b[2]) % 65536>>

Less32(a, b) == a[1] < b[1] \/ (a[1] = b[1] /\ a[2] < b[2])

\* sizeof(frames) / sizeof(frames[0]): the entries of the index array
FrameCountOf(text) == Len(IndexEntries(IndexText(text)))

\* the value FRAME_DELAY is initialised with
FrameDelayOf(text) == ParseDecimal(FrameDelayText(text))

\* the statements of the for loop between `start = millis()` and the waiting loop
LoopBody(text) ==
    SubSeq(text, IndexOf(text, "      unsigned long start = millis();\n") + 1,
                 IndexOf(text, "      while (millis() - start < FRAME_DELAY) {\n") - 1)

\* the statements a loop body may consist of: calls of member functions of the
\* u8g2 object and of the Adafruit display object.  display.display is a member
\* function, so a member access on it is ill-formed and is not among them.
Statements ==
    {"      \n", "      u8g2.firstPage();\n", "      do {\n",
     "        u8g2.drawXBMP(0, 0, SCREEN_WIDTH, SCREEN_HEIGHT, (const uint8_t*)pgm_read_ptr(&frames[frame]));\n",
     "      } while (u8g2.nextPage());\n",
     "      display.fillScreen(0x0000);\n",
     "      display.drawXBitmap(0, 0, (const uint8_t*)pgm_read_ptr(&frames[frame]), SCREEN_WIDTH, SCREEN_HEIGHT, 0xFFFF);\n",
     "      display.clearDisplay();\n",
     "      display.drawXBitmap(0, 0, (const uint8_t*)pgm_read_ptr(&frames[frame]), SCREEN_WIDTH, SCREEN_HEIGHT, 1);\n",
     "      display.display();\n"}

Compiles(text) == \A p \in DOMAIN LoopBody(text) : LoopBody(text)[p] \in Statements

\* the statements that send frames[frame] to the display
Blits(text) ==
    {p \in DOMAIN LoopBody(text) :
        LoopBody(text)[p] \in
          {"        u8g2.drawXBMP(0, 0, SCREEN_WIDTH, SCREEN_HEIGHT, (const uint8_t*)pgm_read_ptr(&frames[frame]));\n",
           "      display.drawXBitmap(0, 0, (const uint8_t*)pgm_read_ptr(&frames[frame]), SCREEN_WIDTH, SCREEN_HEIGHT, 0xFFFF);\n",
           "      display.drawXBitmap(0, 0, (const uint8_t*)pgm_read_ptr(&frames[frame]), SCREEN_WIDTH, SCREEN_HEIGHT, 1);\n"}}

SketchOf(generator, library, text, boot) ==
    [pc |-> "compile", generator |-> generator, library |-> library,
     compiles |-> Compiles(text), blits |-> Cardinality(Blits(text)),
     FRAME_COUNT |-> FrameCountOf(text), FRAME_DELAY |-> FrameDelayOf(text),
     frame |-> 0, start |-> <<0, 0>>, millis |-> boot,
     shown |-> <<>>, elapsed |-> 0, period |-> <<>>]

InitSketch ==
    /\ pk = PkIdle
    /\ qz = QzIdle
    /\ PvIdle
    /\ gen = GenIdle
    /\ page = PageIdle
    /\ server = ServerIdle
    /\ \E n \in 1..MaxSketchFrames, f \in SketchFps, library \in Supported,
          boot \in BootMillis, generator \in {"browser", "backend"} :
         LET frames == [k \in 1..n |-> <<BytesOf(k, 1)>>]
             res    == IF generator = "browser"
                       THEN generateArduinoCode(frames, 8, 1, f, library)
                       ELSE VideoProcessor_generateArduinoCode(frames, 8, 1, f, library)
         IN  sketch = SketchOf(generator, library, res.text, boot)

\* the build: a program with an ill-formed statement is never uploaded
Compile ==
    /\ sketch.pc = "compile"
    /\ sketch' = [sketch EXCEPT !.pc = IF sketch.compiles THEN "for" ELSE "compile_error"]
    /\ UNCHANGED <<pk, qz, pvVars, gen, page, server>>

\* for (int frame = 0; frame < FRAME_COUNT; frame++) inside while (true), and
\* unsigned long start = millis()
ForTest ==
    /\ sketch.pc = "for"
    /\ Len(sketch.shown) < MaxShown
    /\ sketch' = IF sketch.frame < sketch.FRAME_COUNT
                 THEN [sketch EXCEPT !.pc = "draw", !.start = sketch.millis, !.elapsed = 0]
                 ELSE [sketch EXCEPT !.frame = 0]
    /\ UNCHANGED <<pk, qz, pvVars, gen, page, server>>

\* the statements of the loop body; each blit shows frames[frame]
Draw ==
    /\ sketch.pc = "draw"
    /\ \E d \in DrawMillis :
         sketch' = [sketch EXCEPT
                      !.pc = "wait",
                      !.shown = sketch.shown \o [b \in 1..sketch.blits |-> sketch.frame],
                      !.millis = Add32(sketch.millis, d),
                      !.elapsed = sketch.elapsed + d]
    /\ UNCHANGED <<pk, qz, pvVars, gen, page, server>>

\* while (millis() - start < FRAME_DELAY) { }, then frame++
WaitTest ==
    /\ sketch.pc = "wait"
    /\ IF Less32(Sub32(sketch.millis, sketch.start), ToUnsignedLong(sketch.FRAME_DELAY))
       THEN \E dt \in LoopMillis :
              sketch' = [sketch EXCEPT !.millis = Add32(sketch.millis, dt),
                                       !.elapsed = sketch.elapsed + dt]
       ELSE sketch' = [sketch EXCEPT !.pc = "for", !.frame = sketch.frame + 1,
                                     !.period = <<sketch.elapsed>>]
    /\ UNCHANGED <<pk, qz, pvVars, gen, page, server>>

NextSketch == Compile \/ ForTest \/ Draw \/ WaitTest

SpecSketch == InitSketch /\ [][NextSketch]_vars

\* frames shown so far are 0, 1, .., FRAME_COUNT - 1, 0, 1, .. with none left out
ShownInOrder ==
    \A k \in DOMAIN sketch.shown : sketch.shown[k] = (k - 1) % sketch.FRAME_COUNT

\* the frame that just ended lasted at least FRAME_DELAY milliseconds
NoEarlyDraw == sketch.period # <<>> => sketch.period[1] >= sketch.FRAME_DELAY

\* C21: generated animation loop.  Every emitted program, for each library and from
\* either generator, builds and runs; the frames it shows are 0, 1, .., n-1 and
\* then 0 again, none skipped; and a frame is followed by the next one only when at
\* least FRAME_DELAY milliseconds have passed since its start timestamp.
C21_AnimationLoop ==
    sketch.pc # "off" =>
        /\ sketch.pc # "compile_error"
        /\ ShownInOrder
        /\ NoEarlyDraw

\* the same for the programs that build: shown when the second round has begun
C21_LoopOfBuiltPrograms ==
    (sketch.pc # "off" /\ sketch.compiles) => ShownInOrder /\ NoEarlyDraw

C21_SecondRound ==
    /\ sketch.pc = "wait"
    /\ sketch.FRAME_COUNT = 3
    /\ Len(sketch.shown) = 5
    /\ sketch.period # <<>>
    /\ sketch.period[1] > sketch.FRAME_DELAY
    /\ Less32(sketch.millis, sketch.start)


(***************************************************************************)
(* SpecServer: POST /:uploadId/process on the backend, for one upload of   *)
(* one user.  Each request is an async handler; the database executes one  *)
(* query at a time, and other requests run between the awaits of a handler.*)
(***************************************************************************)
MaxRequests == 3

Requests == 1..MaxRequests

\* the status column of the upload's row when the first request arrives
UploadStatuses == {"pending", "processing", "completed", "failed"}

NewRequest == [pc |-> "arrived", status |-> "", response |-> "", started |-> 0]

InitServer ==
    /\ pk = PkIdle
    /\ qz = QzIdle
    /\ PvIdle
    /\ gen = GenIdle
    /\ page = PageIdle
    /\ sketch = SketchIdle
    /\ \E status \in UploadStatuses :
          server = [pc |-> "on", status |-> status,
                    requests |-> [r \in Requests |-> NewRequest],
                    jobs |-> 0, finished |-> 0]

\* lines 775-790: await getVideoUpload; the handler answers 400 ALREADY_PROCESSED
\* when the row it read is not 'pending', and otherwise goes on to the update
GetVideoUpload(r) ==
    /\ server.pc = "on"
    /\ server.requests[r].pc = "arrived"
    /\ server' = [server EXCEPT
                    !.requests[r] =
                        IF server.status # "pending"
                        THEN [@ EXCEPT !.pc = "responded", !.status = server.status,
                                       !.response = "ALREADY_PROCESSED"]
                        ELSE [@ EXCEPT !.pc = "updating", !.status = server.status]]
    /\ UNCHANGED <<pk, qz, pvVars, gen, page, sketch>>

\* lines 792-812: await updateVideoUpload(status: 'processing'), then
\* processVideoAsync is called without await and the handler answers 202
UpdateVideoUpload(r) ==
    /\ server.pc = "on"
    /\ server.requests[r].pc = "updating"
    /\ server' = [server EXCEPT !.status = "processing",
                                !.jobs = @ + 1,
                                !.requests[r] = [@ EXCEPT !.pc = "responded",
                                                          !.response = "202",
                                                          !.started = 1]]
    /\ UNCHANGED <<pk, qz, pvVars, gen, page, sketch>>

\* processVideoAsync, lines 1085-1158: a job ends by writing 'completed' (line
\* 1133) or, from its catch, 'failed' (line 1150)
ProcessVideoAsyncEnds ==
    /\ server.pc = "on"
    /\ server.finished < server.jobs
    /\ \E status \in {"completed", "failed"} :
          server' = [server EXCEPT !.status = status, !.finished = @ + 1]
    /\ UNCHANGED <<pk, qz, pvVars, gen, page, sketch>>

NextServer ==
    \/ \E r \in Requests : GetVideoUpload(r)
    \/ \E r \in Requests : UpdateVideoUpload(r)
    \/ ProcessVideoAsyncEnds

SpecServer == InitServer /\ [][NextServer]_vars

\* C29: the backend processes an upload at most once.  Under any interleaving of
\* concurrent POST /:uploadId/process requests for one upload, processVideoAsync
\* is started at most once, and a request that did not find the upload in status
\* 'pending' is answered ALREADY_PROCESSED and starts nothing.
C29_ProcessedAtMostOnce ==
    server.pc = "on" =>
        /\ server.jobs <= 1
        /\ \A r \in Requests :
              (server.requests[r].pc = "responded" /\ server.requests[r].status # "pending") =>
                  /\ server.requests[r].response = "ALREADY_PROCESSED"
                  /\ server.requests[r].started = 0

\* the second half alone: requests that read another status than 'pending' are
\* rejected and start nothing, and only requests that read 'pending' start a job
C29_NonPendingRejected ==
    server.pc = "on" =>
        /\ \A r \in Requests :
              (server.requests[r].pc = "responded" /\ server.requests[r].status # "pending") =>
                  /\ server.requests[r].response = "ALREADY_PROCESSED"
                  /\ server.requests[r].started = 0
        /\ server.jobs = Cardinality({r \in Requests : server.requests[r].started = 1})
        /\ \A r \in Requests :
              server.requests[r].started = 1 => server.requests[r].status = "pending"

\* one request started the job, a later one was rejected
C29_OneStartedOneRejected ==
    /\ server.pc = "on"
    /\ server.jobs = 1
    /\ \E r1, r2 \in Requests :
          /\ server.requests[r1].response = "202"
          /\ server.requests[r2].response = "ALREADY_PROCESSED"
          /\ server.requests[r2].status = "processing"

====
